---- MODULE Spec2Model ----
(***************************************************************************)
(* Loro collaboration hub: the server Document (packages/server/src/       *)
(* Document.ts) and the client LoroProvider (packages/provider/src/        *)
(* LoroProvider.ts).                                                       *)
(*                                                                         *)
(* SpecDoc      one server Document: its stored updates, its replica, its  *)
(*              registered connections and what is enqueued on them.       *)
(* SpecSync     the same Document answering sync requests: replicas that   *)
(*              arrive already hydrated, every update, every version       *)
(*              vector; no connection is registered.                       *)
(* SpecProvider one client LoroProvider on a shared websocket.             *)
(***************************************************************************)
EXTENDS Naturals, Integers, Sequences, FiniteSets, TLC

\* ------------------------------------------------------------------------
\* Bounds
\* ------------------------------------------------------------------------
MaxCalls == 2      \* broadcasting calls on the Document per behaviour
MaxSent == 2       \* frames the provider hands to the websocket per behaviour
MaxOpens == 1      \* open events the provider handles per behaviour
MaxDestroys == 2   \* destroy() calls on the provider per behaviour
MaxInbound == 2    \* frames the provider receives per behaviour
MaxInFlight == 1   \* relay: frames a socket holds in one direction
MaxGate == 2      \* LoroUpdate frames the server reads per behaviour

\* ------------------------------------------------------------------------
\* The CRDT engine as the guide documents it: operations are (peer,
\* counter) pairs, an update is a set of them, a replica keeps the applied
\* operations (oplog) and those whose dependencies are missing (pending).
\* ------------------------------------------------------------------------
Peers == {"p1", "p2"}
Ops == {<<"p1", 0>>, <<"p1", 1>>, <<"p2", 0>>}

Update(ops) == [kind |-> "update", ops |-> ops]
Malformed == [kind |-> "garbage", ops |-> {}]
EphemeralPayload == [kind |-> "ephemeral", ops |-> {}]

\* what a client's subscribeLocalUpdates reports: one operation per commit
LocalUpdates == {Update({o}) : o \in Ops}
\* what may arrive in a LoroUpdate frame
Updates == LocalUpdates \cup {Malformed}

NoDoc == [present |-> FALSE, oplog |-> {}, pending |-> {}, array |-> FALSE]
NewDoc(array) == [present |-> TRUE, oplog |-> {}, pending |-> {}, array |-> array]

\* operations of s that have all their predecessors in s
Applicable(s) == {o \in s : \A k \in 0 .. (o[2] - 1) : <<o[1], k>> \in s}

\* doc.import(update): throws on bytes that are no update; applies what has
\* its dependencies, keeps the rest pending
Import(doc, update) ==
    IF update.kind # "update"
    THEN [doc |-> doc, threw |-> TRUE]
    ELSE LET all == doc.oplog \cup doc.pending \cup update.ops
             applied == Applicable(all)
         IN [doc |-> [doc EXCEPT !.oplog = applied, !.pending = all \ applied],
             threw |-> FALSE]

\* doc.oplogVersion(): peer -> number of applied operations
OplogVersion(doc) ==
    [p \in Peers |-> Cardinality({o \in doc.oplog : o[1] = p})]

ZeroVV == [p \in Peers |-> 0]
VVs == {v \in [Peers -> 0 .. Cardinality(Ops)] :
            \A p \in Peers : v[p] <= Cardinality({o \in Ops : o[1] = p})}
Covers(a, b) == \A p \in Peers : a[p] >= b[p]

\* the operations the replica holds and the vector lacks
MissingFrom(doc, from) == {o \in doc.oplog : o[2] >= from[o[1]]}

PeerOrder == <<"p1", "p2">>

RECURSIVE PerPeer(_, _)
PerPeer(ops, i) ==
    IF i > Len(PeerOrder) THEN <<>>
    ELSE LET mine == {o \in ops : o[1] = PeerOrder[i]}
         IN (IF mine = {} THEN <<>> ELSE <<Update(mine)>>) \o PerPeer(ops, i + 1)

\* doc.export({mode: "update", from}): one blob, or for an engine that
\* exports a list, one blob per peer
Export(doc, from) ==
    IF doc.array
    THEN [isBytes |-> FALSE, bytes |-> Update({}), list |-> PerPeer(MissingFrom(doc, from), 1)]
    ELSE [isBytes |-> TRUE, bytes |-> Update(MissingFrom(doc, from)), list |-> <<>>]

\* ------------------------------------------------------------------------
\* Server: Document
\* ------------------------------------------------------------------------
Connections == {"cA", "cB"}
WebSockets == {"w1", "w2"}
\* connection.webSocket
webSocket == [c \in Connections |-> IF c = "cA" THEN "w1" ELSE "w2"]
NoConnection == "none"
NoOrigin == "none"
NoFilter == {"none"}
StatelessPayloads == {"ping"}
\* filters of broadcastStateless: none given, or a predicate true of cA only
StatelessFilters == {NoFilter, {"cA"}}
\* the updates SpecDoc submits: one the replica takes, one it rejects
DocUpdates == {Update({<<"p1", 0>>}), Malformed}

\* the versionVector argument of exportLoroUpdates: absent (undefined or
\* the empty string), a vector, or a value the engine cannot read
NoVV == [kind |-> "none", vv |-> ZeroVV]
BadVV == [kind |-> "bad", vv |-> ZeroVV]
VersionVectors == {NoVV, BadVV} \cup {[kind |-> "vv", vv |-> v] : v \in VVs}

\* replicas a caller may hand to setLoroDoc: new ones, and ones hydrated
\* from persistence beforehand
HydratedDocs ==
    {[present |-> TRUE, oplog |-> s, pending |-> {}, array |-> a] :
        s \in {x \in SUBSET Ops : Applicable(x) = x}, a \in BOOLEAN}

VARIABLES
    loroUpdates,        \* Document.loroUpdates
    loroDoc,            \* Document.loroDoc
    connections,        \* Document.connections: webSocket -> connection
    outbound,           \* per connection: frames handed to connection.send
    onLoroUpdateCalls,  \* invocations of callbacks.onLoroUpdate
    statelessCalls,     \* invocations of callbacks.beforeBroadcastStateless
    importLog,          \* calls of import on the installed replica
    callLog,            \* history: the handleLoroUpdate calls made
    calls,              \* history: number of broadcasting calls made
    lastOp              \* history: the last call and its result

docVars == <<loroUpdates, loroDoc, connections, outbound, onLoroUpdateCalls,
             statelessCalls, importLog, callLog, calls, lastOp>>

VARIABLES
    token,              \* configuration.token: "string", "producer", "failing"
    forceSyncInterval,  \* configuration.forceSyncInterval is a number
    isAttached,         \* LoroProvider._isAttached
    wsListeners,        \* websocketProvider: event -> registrations of this provider
    forceSync,          \* intervals.forceSync is a running interval
    unsubDoc,           \* unsubDoc holds a function
    unsubEphemeral,     \* unsubEphemeral holds a function
    docSubscribed,      \* the doc still calls the local-update callback
    ephSubscribed,      \* the ephemeral store still calls its callback
    localDoc,           \* configuration.doc, the client replica
    openTasks,          \* the onOpen calls made: where each one stands
    wsSent,             \* frames handed to websocketProvider, in order
    outgoingEvents,     \* "outgoingMessage" events emitted
    lastCall,           \* history: the last provider step
    openLog,            \* history: per onOpen call, where its frames went
    destroyEvents,      \* "destroy" events emitted by the provider
    unsubCalls,         \* history: calls made of each unsubscribe function
    ephemeralStore,     \* configuration.ephemeralStore: the payloads applied
    inboundLog          \* history: the onMessage calls and what each did

providerVars == <<token, forceSyncInterval, isAttached, wsListeners, forceSync,
                  unsubDoc, unsubEphemeral, docSubscribed, ephSubscribed, localDoc,
                  openTasks, wsSent, outgoingEvents, lastCall, openLog,
                  destroyEvents, unsubCalls, ephemeralStore, inboundLog>>

inboundVars == <<ephemeralStore, inboundLog>>

VARIABLES
    peers,              \* relay: per client its provider and replica
    uplink,             \* relay: per client the frames on their way to the server
    lost                \* history: per client the updates whose broadcast was lost

VARIABLES
    attachment,         \* server: per connection and document name, the attachment
    served,             \* server: frames of the provider it has read
    gateLog             \* history: the LoroUpdate frames the server has read

authVars == <<attachment, served, gateLog>>

VARIABLES
    message,            \* codec: the message class and the arguments of get(args)
    encoded,            \* codec: the bytes the encoder holds after get(args)
    decoded             \* codec: what a reader of the frame has read

codecVars == <<message, encoded, decoded>>

VARIABLES
    openedAt,           \* history: per open event of the shared websocket, how
                        \* many frames the provider had sent when it came
    versionRead         \* configuration.doc.oplogVersion: "value" (returns the
                        \* version), "absent" (no such operation), "throws"
eventVars == <<openedAt, versionRead>>

relayVars == <<peers, uplink, lost, authVars, codecVars, eventVars>>

vars == <<docVars, providerVars, relayVars>>


\* getConnections()
GetConnections(conns) == {conns[w] : w \in {x \in WebSockets : conns[x] # NoConnection}}

PushFront(seq, update) == <<update>> \o seq
PushUnlessStored(seq, update) ==
    IF \E i \in DOMAIN seq : seq[i] = update THEN seq ELSE Append(seq, update)
\* this.loroUpdates.push(update)
Push(seq, update) == Append(seq, update)

StoredAfterEphemeralPushed(stored, update) == Push(stored, update)
\* broadcastLoroEphemeral never touches loroUpdates
StoredAfterEphemeral(stored, update) == stored

FanoutToAll(conns, origin) == GetConnections(conns)
FanoutNeedsOrigin(conns, origin) ==
    {c \in GetConnections(conns) : origin # NoOrigin /\ c # origin}
\* the forEach of handleLoroUpdate and broadcastLoroEphemeral:
\* if (origin && conn === origin) return; conn.send(...)
Fanout(conns, origin) ==
    {c \in GetConnections(conns) : ~(origin # NoOrigin /\ c = origin)}

\* filter ? getConnections().filter(filter) : getConnections()
StatelessTargetsUnfiltered(conns, filter) == GetConnections(conns)
StatelessTargets(conns, filter) ==
    IF filter # NoFilter THEN GetConnections(conns) \cap filter ELSE GetConnections(conns)

\* broadcastStateless in the order of its statements: the callback, then
\* connection.sendStateless(payload) for each connection that was kept
StatelessSteps(conns, payload, filter) ==
    LET sendStateless(c) ==
            IF c \in StatelessTargets(conns, filter)
            THEN <<[step |-> "sendStateless", connection |-> c, payload |-> payload]>>
            ELSE <<>>
    IN <<[step |-> "beforeBroadcastStateless", connection |-> NoConnection,
          payload |-> payload]>>
       \o sendStateless("cA") \o sendStateless("cB")

LoroUpdateFrameEmpty(update) == [type |-> "LoroUpdate", payload |-> Update({})]
\* OutgoingMessage.writeLoroUpdate / writeLoroEphemeral / sendStateless
LoroUpdateFrame(update) == [type |-> "LoroUpdate", payload |-> update]
LoroEphemeralFrame(update) == [type |-> "LoroEphemeral", payload |-> update]
StatelessFrame(payload) == [type |-> "Stateless", payload |-> payload]

SendTwice(out, targets, frame) ==
    [c \in Connections |-> IF c \in targets THEN out[c] \o <<frame, frame>> ELSE out[c]]
SendToEvery(out, targets, frame) == [c \in Connections |-> Append(out[c], frame)]
\* connection.send(frame) on every connection of targets
Send(out, targets, frame) ==
    [c \in Connections |-> IF c \in targets THEN Append(out[c], frame) ELSE out[c]]

CatchImportRethrows(threw) == ~threw
\* try { loroDoc.import(update) } catch (e) { ... }: does the caller go on
\* after an import that threw
CatchImport(threw) == TRUE

\* if (this.loroDoc) { try { this.loroDoc.import(update) } catch ... }
ImportIfAvailable(doc, update) ==
    IF doc.present THEN Import(doc, update) ELSE [doc |-> doc, threw |-> FALSE]

RECURSIVE ImportEachUntilThrow(_, _, _)
ImportEachUntilThrow(doc, updates, log) ==
    IF updates = <<>> THEN [doc |-> doc, log |-> log]
    ELSE LET r == Import(doc, Head(updates))
             seen == Append(log, [update |-> Head(updates), ok |-> ~r.threw])
         IN IF r.threw THEN [doc |-> r.doc, log |-> seen]
            ELSE ImportEachUntilThrow(r.doc, Tail(updates), seen)
RECURSIVE ImportEachReversed(_, _, _)
ImportEachReversed(doc, updates, log) ==
    IF updates = <<>> THEN [doc |-> doc, log |-> log]
    ELSE LET last == updates[Len(updates)]
             r == Import(doc, last)
         IN ImportEachReversed(r.doc, SubSeq(updates, 1, Len(updates) - 1),
                               Append(log, [update |-> last, ok |-> ~r.threw]))
RECURSIVE ImportEach(_, _, _)
\* loroUpdates.forEach(update => { try { loroDoc.import(update) } catch {} })
ImportEach(doc, updates, log) ==
    IF updates = <<>> THEN [doc |-> doc, log |-> log]
    ELSE LET r == Import(doc, Head(updates))
         IN ImportEach(r.doc, Tail(updates),
                       Append(log, [update |-> Head(updates), ok |-> ~r.threw]))

\* update instanceof Uint8Array ? [update] : update
Wrap(exported) == IF exported.isBytes THEN <<exported.bytes>> ELSE exported.list

ExportIgnoringFrom(doc, stored, versionVector, fromThrows, fullThrows) ==
    IF doc.present /\ ~fullThrows
    THEN [path |-> "full", updates |-> Wrap(Export(doc, ZeroVV))]
    ELSE [path |-> "stored", updates |-> stored]
ExportStoredMissing(doc, stored, versionVector, fromThrows, fullThrows) ==
    IF /\ doc.present
       /\ versionVector.kind # "none"
       /\ ~(fromThrows \/ versionVector.kind = "bad")
    THEN [path |-> "from", updates |-> Wrap(Export(doc, versionVector.vv))]
    ELSE IF doc.present /\ ~fullThrows
    THEN [path |-> "full", updates |-> Wrap(Export(doc, ZeroVV))]
    ELSE [path |-> "stored",
          updates |-> SelectSeq(stored,
                                LAMBDA u : \E o \in u.ops : o[2] >= versionVector.vv[o[1]])]
ExportRaising(doc, stored, versionVector, fromThrows, fullThrows) ==
    IF /\ doc.present
       /\ versionVector.kind # "none"
       /\ ~(fromThrows \/ versionVector.kind = "bad")
    THEN [path |-> "from", updates |-> Wrap(Export(doc, versionVector.vv))]
    ELSE IF doc.present /\ versionVector.kind # "none"
    THEN [path |-> "raised", updates |-> <<>>]
    ELSE IF doc.present /\ ~fullThrows
    THEN [path |-> "full", updates |-> Wrap(Export(doc, ZeroVV))]
    ELSE [path |-> "stored", updates |-> stored]
\* exportLoroUpdates(versionVector). The replica's export may throw: with
\* the vector when the engine cannot read it or when fromThrows, without one
\* when fullThrows
ExportLoroUpdatesResult(doc, stored, versionVector, fromThrows, fullThrows) ==
    IF /\ doc.present
       /\ versionVector.kind # "none"
       /\ ~(fromThrows \/ versionVector.kind = "bad")
    THEN [path |-> "from", updates |-> Wrap(Export(doc, versionVector.vv))]
    ELSE IF doc.present /\ ~fullThrows
    THEN [path |-> "full", updates |-> Wrap(Export(doc, ZeroVV))]
    ELSE [path |-> "stored", updates |-> stored]

DocCreated ==
    /\ loroUpdates = <<>>
    /\ loroDoc = NoDoc
    /\ connections = [w \in WebSockets |-> NoConnection]
    /\ outbound = [c \in Connections |-> <<>>]
    /\ onLoroUpdateCalls = <<>>
    /\ statelessCalls = <<>>
    /\ importLog = <<>>
    /\ callLog = <<>>
    /\ calls = 0
    /\ lastOp = [op |-> "init"]

\* addConnection(connection)
AddConnection(c) ==
    /\ UNCHANGED <<providerVars, relayVars>>
    /\ connections' = [connections EXCEPT ![webSocket[c]] = c]
    /\ lastOp' = [op |-> "addConnection", connection |-> c,
                  registered |-> GetConnections(connections)]
    /\ UNCHANGED <<loroUpdates, loroDoc, outbound, onLoroUpdateCalls, statelessCalls,
                   importLog, callLog, calls>>

\* removeConnection(connection); no Yjs awareness state is ever set here,
\* so removeAwarenessStates has nothing to remove and announces nothing
RemoveConnection(c) ==
    /\ UNCHANGED <<providerVars, relayVars>>
    /\ connections' = [connections EXCEPT ![webSocket[c]] = NoConnection]
    /\ lastOp' = [op |-> "removeConnection", connection |-> c]
    /\ UNCHANGED <<loroUpdates, loroDoc, outbound, onLoroUpdateCalls, statelessCalls,
                   importLog, callLog, calls>>

\* setLoroDoc(loroDoc)
SetLoroDoc(doc) ==
    LET r == IF doc.present /\ Len(loroUpdates) > 0
             THEN ImportEach(doc, loroUpdates, <<>>)
             ELSE [doc |-> doc, log |-> <<>>]
    IN /\ UNCHANGED <<providerVars, relayVars>>
       /\ loroDoc' = r.doc
       /\ importLog' = r.log
       /\ lastOp' = [op |-> "setLoroDoc", given |-> doc]
       /\ UNCHANGED <<loroUpdates, connections, outbound, onLoroUpdateCalls,
                      statelessCalls, callLog, calls>>

HandleLoroUpdateStepsCallbackFirst(doc, conns, update, origin) ==
    LET send(c) == IF c \in Fanout(conns, origin)
                   THEN <<[step |-> "send", connection |-> c]>> ELSE <<>>
    IN <<[step |-> "onLoroUpdate", connection |-> origin],
         [step |-> "push", connection |-> origin]>>
       \o (IF doc.present THEN <<[step |-> "import", connection |-> origin]>> ELSE <<>>)
       \o send("cA") \o send("cB")
\* handleLoroUpdate in the order of its statements: push, import when a
\* replica is installed, conn.send for each connection but the origin, and
\* callbacks.onLoroUpdate(this, origin, update) last
HandleLoroUpdateSteps(doc, conns, update, origin) ==
    LET r == ImportIfAvailable(doc, update)
        goesOn == ~r.threw \/ CatchImport(r.threw)
        send(c) == IF c \in Fanout(conns, origin)
                   THEN <<[step |-> "send", connection |-> c]>> ELSE <<>>
    IN <<[step |-> "push", connection |-> origin]>>
       \o (IF doc.present THEN <<[step |-> "import", connection |-> origin]>> ELSE <<>>)
       \o (IF goesOn
           THEN send("cA") \o send("cB")
                \o <<[step |-> "onLoroUpdate", connection |-> origin]>>
           ELSE <<>>)

\* handleLoroUpdate(update, origin): what it does to the Document and to
\* the sockets
HandleLoroUpdateEffect(update, origin) ==
    LET r == ImportIfAvailable(loroDoc, update)
        goesOn == ~r.threw \/ CatchImport(r.threw)
        targets == IF goesOn THEN Fanout(connections, origin) ELSE {}
    IN /\ loroUpdates' = Push(loroUpdates, update)
       /\ loroDoc' = r.doc
       /\ outbound' = Send(outbound, targets, LoroUpdateFrame(update))
       /\ UNCHANGED <<connections, statelessCalls>>

\* handleLoroUpdate(update, origin), with what the call shows
HandleLoroUpdate(update, origin) ==
    LET r == ImportIfAvailable(loroDoc, update)
        goesOn == ~r.threw \/ CatchImport(r.threw)
    IN /\ calls < MaxCalls
       /\ calls' = calls + 1
       /\ HandleLoroUpdateEffect(update, origin)
       /\ importLog' = IF loroDoc.present
                       THEN Append(importLog, [update |-> update, ok |-> ~r.threw])
                       ELSE importLog
       /\ onLoroUpdateCalls' =
            IF goesOn
            THEN Append(onLoroUpdateCalls, [origin |-> origin, update |-> update])
            ELSE onLoroUpdateCalls
       /\ callLog' = Append(callLog, [update |-> update, origin |-> origin,
                                      registered |-> GetConnections(connections)])
       /\ lastOp' = [op |-> "handleLoroUpdate", update |-> update, origin |-> origin,
                     registered |-> GetConnections(connections),
                     importThrew |-> r.threw, before |-> outbound,
                     steps |-> HandleLoroUpdateSteps(loroDoc, connections, update, origin)]
       /\ UNCHANGED <<providerVars, relayVars>>

\* broadcastLoroEphemeral(update, origin)
BroadcastLoroEphemeral(update, origin) ==
    /\ calls < MaxCalls
    /\ UNCHANGED <<providerVars, relayVars>>
    /\ calls' = calls + 1
    /\ outbound' = Send(outbound, Fanout(connections, origin), LoroEphemeralFrame(update))
    /\ loroUpdates' = StoredAfterEphemeral(loroUpdates, update)
    /\ lastOp' = [op |-> "broadcastLoroEphemeral", update |-> update, origin |-> origin,
                  registered |-> GetConnections(connections), before |-> outbound]
    /\ UNCHANGED <<loroDoc, connections, onLoroUpdateCalls, statelessCalls,
                   importLog, callLog>>

\* broadcastStateless(payload, filter)
BroadcastStateless(payload, filter) ==
    /\ calls < MaxCalls
    /\ UNCHANGED <<providerVars, relayVars>>
    /\ calls' = calls + 1
    /\ statelessCalls' = Append(statelessCalls, payload)
    /\ outbound' = Send(outbound, StatelessTargets(connections, filter), StatelessFrame(payload))
    /\ lastOp' = [op |-> "broadcastStateless", payload |-> payload, filter |-> filter,
                  registered |-> GetConnections(connections), before |-> outbound,
                  steps |-> StatelessSteps(connections, payload, filter)]
    /\ UNCHANGED <<loroUpdates, loroDoc, connections, onLoroUpdateCalls, importLog, callLog>>

\* exportLoroUpdates(versionVector)
ExportLoroUpdates(versionVector, fromThrows, fullThrows) ==
    /\ UNCHANGED <<providerVars, relayVars>>
    /\ lastOp' = [op |-> "exportLoroUpdates", versionVector |-> versionVector,
                  fromThrows |-> fromThrows, fullThrows |-> fullThrows,
                  result |-> ExportLoroUpdatesResult(loroDoc, loroUpdates, versionVector,
                                                     fromThrows, fullThrows)]
    /\ UNCHANGED <<loroUpdates, loroDoc, connections, outbound, onLoroUpdateCalls,
                   statelessCalls, importLog, callLog, calls>>

\* ------------------------------------------------------------------------
\* Client: LoroProvider
\* ------------------------------------------------------------------------
\* a string: plain text, or the JSON text of a version vector with its entries
Text(t) == [text |-> t, entries |-> {}]
EmptyString == Text("")
Undefined == [undefined |-> TRUE]
DocumentName == Text("doc1")
LocalPeer == "p1"
Events == {"connect", "status", "open", "close", "disconnect", "destroy"}

\* the fields an OutgoingMessage writes, in order
VarString(s) == [str |-> s]
VarUint(n) == [uint |-> n]
VarUint8Array(b) == [bytes |-> b]

\* JSON.stringify(doc.oplogVersion()): the peers that have operations, each
\* with its counter
Stringify(vv) ==
    [text |-> "json", entries |-> {<<p, vv[p]>> : p \in {q \in Peers : vv[q] > 0}}]

\* LoroUpdateMessage.get / LoroEphemeralMessage.get /
\* LoroSyncRequestMessage.get / AuthenticationMessage.get
LoroUpdateMessageWithoutUpdate(args) ==
    <<VarString(args.documentName), VarUint("LoroUpdate"), VarUint8Array(Update({}))>>
LoroUpdateMessageTagFirst(args) ==
    <<VarUint("LoroUpdate"), VarString(args.documentName), VarUint8Array(args.update)>>
LoroUpdateMessage(args) ==
    <<VarString(args.documentName), VarUint("LoroUpdate"), VarUint8Array(args.update)>>
LoroEphemeralMessageToOther(args) ==
    <<VarString(Text("doc2")), VarUint("LoroEphemeral"), VarUint8Array(args.update)>>
LoroEphemeralMessage(args) ==
    <<VarString(args.documentName), VarUint("LoroEphemeral"), VarUint8Array(args.update)>>
LoroSyncRequestMessageWithoutVersion(args) ==
    <<VarString(args.documentName), VarUint("LoroSyncRequest"), VarString(EmptyString)>>
LoroSyncRequestMessage(args) ==
    <<VarString(args.documentName), VarUint("LoroSyncRequest"),
      VarString(IF args.versionJSON = Undefined \/ args.versionJSON = EmptyString
                THEN EmptyString ELSE args.versionJSON)>>
AuthenticationMessage(args) ==
    <<VarString(args.documentName), VarUint("Auth"), VarString(args.token)>>

SendAlways(attached, sent, frame) == Append(sent, frame)
SendDetachedUpdates(attached, sent, frame) ==
    IF attached \/ frame[2] = VarUint("LoroUpdate") THEN Append(sent, frame) ELSE sent
\* send(message, args): if (!this._isAttached) return; ...
\* messageSender.send(websocketProvider)
SendIfAttached(attached, sent, frame) == IF attached THEN Append(sent, frame) ELSE sent

\* this.emit("outgoingMessage", ...) inside send
EmitOutgoing(attached, n) == IF attached THEN n + 1 ELSE n

\* a promise continuation is queued: only other continuations and the calls
\* they make run before it, no timer and no socket event
MicrotaskQueued ==
    \E i \in 1 .. Len(openTasks) :
        \/ openTasks[i] = "resume"
        \/ openTasks[i] \in {"token", "authToken"} /\ token = "string"

\* the provider after its constructor, given a websocketProvider
ProviderCreated ==
    /\ token \in {"string", "producer", "failing"}
    /\ forceSyncInterval \in BOOLEAN
    /\ isAttached = FALSE
    /\ wsListeners = [e \in Events |-> 0]
    /\ forceSync = forceSyncInterval
    /\ unsubDoc = TRUE
    /\ unsubEphemeral = TRUE
    /\ docSubscribed = TRUE
    /\ ephSubscribed = TRUE
    /\ localDoc = NewDoc(FALSE)
    /\ openTasks = <<>>
    /\ wsSent = <<>>
    /\ outgoingEvents = 0
    /\ lastCall = [op |-> "constructor"]
    /\ openLog = <<>>
    /\ destroyEvents = 0
    /\ unsubCalls = [doc |-> 0, ephemeral |-> 0]
    /\ ephemeralStore = <<>>
    /\ inboundLog = <<>>

\* a provider that takes no step
ProviderIdle ==
    /\ token = "string"
    /\ forceSyncInterval = FALSE
    /\ isAttached = FALSE
    /\ wsListeners = [e \in Events |-> 0]
    /\ forceSync = FALSE
    /\ unsubDoc = TRUE
    /\ unsubEphemeral = TRUE
    /\ docSubscribed = TRUE
    /\ ephSubscribed = TRUE
    /\ localDoc = NewDoc(FALSE)
    /\ openTasks = <<>>
    /\ wsSent = <<>>
    /\ outgoingEvents = 0
    /\ lastCall = [op |-> "constructor"]
    /\ openLog = <<>>
    /\ destroyEvents = 0
    /\ unsubCalls = [doc |-> 0, ephemeral |-> 0]
    /\ ephemeralStore = <<>>
    /\ inboundLog = <<>>

\* send(message, args) of one frame
DoSend(frame) ==
    /\ wsSent' = SendIfAttached(isAttached, wsSent, frame)
    /\ outgoingEvents' = EmitOutgoing(isAttached, outgoingEvents)

AttachListenersUnguarded(attached, listeners) ==
    [e \in Events |-> listeners[e] + 1]
\* if (this._isAttached) return; websocketProvider.on(event, handler) for
\* the six handlers
AttachListeners(attached, listeners) ==
    IF attached THEN listeners ELSE [e \in Events |-> listeners[e] + 1]

\* websocketProvider.off(event, handler) for the six handlers
DetachListeners(listeners) == [e \in Events |-> 0]

\* attach()
Attach ==
    /\ UNCHANGED <<docVars, relayVars>>
    /\ isAttached' = TRUE
    /\ wsListeners' = AttachListeners(isAttached, wsListeners)
    /\ lastCall' = [op |-> "attach", attachedBefore |-> isAttached,
                    listenersBefore |-> wsListeners]
    /\ UNCHANGED <<inboundVars, openLog, destroyEvents, unsubCalls>>
    /\ UNCHANGED <<token, forceSyncInterval, forceSync, unsubDoc, unsubEphemeral,
                   docSubscribed, ephSubscribed, localDoc, openTasks, wsSent,
                   outgoingEvents>>

\* detach()
Detach ==
    /\ UNCHANGED <<docVars, relayVars>>
    /\ isAttached' = FALSE
    /\ wsListeners' = DetachListeners(wsListeners)
    /\ lastCall' = [op |-> "detach"]
    /\ UNCHANGED <<inboundVars, openLog, destroyEvents, unsubCalls>>
    /\ UNCHANGED <<token, forceSyncInterval, forceSync, unsubDoc, unsubEphemeral,
                   docSubscribed, ephSubscribed, localDoc, openTasks, wsSent,
                   outgoingEvents>>

UnsubscribeSkipped(unsub, subscribed) == subscribed
\* if (this.unsubDoc) { try { this.unsubDoc() } catch (_) {} }: is the
\* subscription still there afterwards
Unsubscribe(unsub, subscribed) == IF unsub THEN FALSE ELSE subscribed

CatchUnsubscribeRethrows(threw) == ~threw
\* try { this.unsubDoc() } catch (_) {}: does destroy() go on after an
\* unsubscribe function that threw
CatchUnsubscribe(threw) == TRUE

\* destroy(); docThrows, ephThrows: the unsubscribe function throws once
\* it has unsubscribed
Destroy(docThrows, ephThrows) ==
    LET docCalled == unsubDoc
        docDone == ~docCalled \/ CatchUnsubscribe(docThrows)
        ephCalled == docDone /\ unsubEphemeral
        ephDone == docDone /\ (~ephCalled \/ CatchUnsubscribe(ephThrows))
        threwNow == (IF docCalled /\ docThrows THEN 1 ELSE 0)
                    + (IF ephCalled /\ ephThrows THEN 1 ELSE 0)
        threwBefore == IF lastCall.op = "destroy" THEN lastCall.threw ELSE 0
    IN /\ UNCHANGED <<docVars, relayVars>>
       /\ destroyEvents < MaxDestroys
       /\ destroyEvents' = destroyEvents + 1
       /\ forceSync' = FALSE
       /\ unsubDoc' = IF docDone THEN FALSE ELSE unsubDoc
       /\ docSubscribed' = Unsubscribe(unsubDoc, docSubscribed)
       /\ unsubEphemeral' = IF ephDone THEN FALSE ELSE unsubEphemeral
       /\ ephSubscribed' = IF docDone THEN Unsubscribe(unsubEphemeral, ephSubscribed)
                           ELSE ephSubscribed
       /\ unsubCalls' = [doc |-> unsubCalls.doc + (IF docCalled THEN 1 ELSE 0),
                         ephemeral |-> unsubCalls.ephemeral + (IF ephCalled THEN 1 ELSE 0)]
       /\ isAttached' = IF ephDone THEN FALSE ELSE isAttached
       /\ wsListeners' = IF ephDone THEN DetachListeners(wsListeners) ELSE wsListeners
       /\ lastCall' = [op |-> "destroy", threw |-> threwBefore + threwNow,
                       forceSyncBefore |-> forceSync,
                       docSubscribedBefore |-> docSubscribed,
                       ephSubscribedBefore |-> ephSubscribed,
                       attachedBefore |-> isAttached, eventsBefore |-> destroyEvents]
       /\ UNCHANGED <<inboundVars, openLog>>
       /\ UNCHANGED <<token, forceSyncInterval, localDoc, openTasks, wsSent,
                      outgoingEvents>>

\* the doc commits a local operation and calls the subscribeLocalUpdates
\* callback of the constructor with it
LocalUpdate ==
    LET n == OplogVersion(localDoc)[LocalPeer]
        update == Update({<<LocalPeer, n>>})
    IN /\ UNCHANGED <<docVars, relayVars>>
       /\ docSubscribed
       /\ <<LocalPeer, n>> \in Ops
       /\ Len(wsSent) < MaxSent
       /\ localDoc' = Import(localDoc, update).doc
       /\ DoSend(LoroUpdateMessage([documentName |-> DocumentName, update |-> update]))
       /\ lastCall' = [op |-> "localUpdate", update |-> update, attached |-> isAttached,
                       sentBefore |-> wsSent, eventsBefore |-> outgoingEvents]
       /\ UNCHANGED <<inboundVars, openLog, destroyEvents, unsubCalls>>
       /\ UNCHANGED <<token, forceSyncInterval, isAttached, wsListeners, forceSync,
                      unsubDoc, unsubEphemeral, docSubscribed, ephSubscribed, openTasks>>

\* the ephemeral store calls the subscribeLocalUpdates callback
LocalEphemeral ==
    /\ UNCHANGED <<docVars, relayVars>>
    /\ ephSubscribed
    /\ Len(wsSent) < MaxSent
    /\ DoSend(LoroEphemeralMessage([documentName |-> DocumentName,
                                    update |-> EphemeralPayload]))
    /\ lastCall' = [op |-> "localEphemeral", attached |-> isAttached,
                    sentBefore |-> wsSent, eventsBefore |-> outgoingEvents]
    /\ UNCHANGED <<inboundVars, openLog, destroyEvents, unsubCalls>>
    /\ UNCHANGED <<token, forceSyncInterval, isAttached, wsListeners, forceSync,
                   unsubDoc, unsubEphemeral, docSubscribed, ephSubscribed, localDoc,
                   openTasks>>

StartSyncSkipped == UNCHANGED <<wsSent, outgoingEvents>>
\* what reading doc.oplogVersion() can do
VersionReads == {"value", "absent", "throws"}

CatchOplogVersionRethrows(threw) == ~threw
\* try { ... oplogVersion() ... } catch (_) { }: does startSync() go on
CatchOplogVersion(threw) == TRUE

\* startSync(): versionJSON from doc.oplogVersion() if the doc has one and it
\* returns, then send
StartSync ==
    LET versionJSON == IF versionRead = "value"
                       THEN Stringify(OplogVersion(localDoc))
                       ELSE Undefined
    IN IF CatchOplogVersion(versionRead = "throws")
       THEN DoSend(LoroSyncRequestMessage([documentName |-> DocumentName,
                                           versionJSON |-> versionJSON]))
       ELSE StartSyncSkipped

\* the forceSync interval fires: forceSync() -> startSync()
Tick ==
    /\ UNCHANGED <<docVars, relayVars>>
    /\ forceSync
    /\ ~MicrotaskQueued
    /\ Len(wsSent) < MaxSent
    /\ StartSync
    /\ lastCall' = [op |-> "tick", attached |-> isAttached,
                    sentBefore |-> wsSent, eventsBefore |-> outgoingEvents]
    /\ UNCHANGED <<inboundVars, openLog, destroyEvents, unsubCalls>>
    /\ UNCHANGED <<token, forceSyncInterval, isAttached, wsListeners, forceSync,
                   unsubDoc, unsubEphemeral, docSubscribed, ephSubscribed, localDoc,
                   openTasks>>

\* the websocket emits "open" and calls boundOnOpen: onOpen() up to its
\* await: emit("open"), sendToken() -> getToken()
OnOpenStart ==
    /\ wsListeners["open"] > 0
    /\ ~MicrotaskQueued
    /\ Len(openTasks) < MaxOpens
    /\ openTasks' = Append(openTasks, "token")
    /\ openLog' = Append(openLog, [auth |-> 0, sync |-> 0, tokenAttached |-> FALSE,
                                   resumeAttached |-> FALSE])
    /\ UNCHANGED <<inboundVars, destroyEvents, unsubCalls>>
    /\ UNCHANGED <<token, forceSyncInterval, isAttached, wsListeners, forceSync,
                   unsubDoc, unsubEphemeral, docSubscribed, ephSubscribed, localDoc,
                   wsSent, outgoingEvents>>

CatchGetTokenRethrows(failed) == ~failed
\* try { token = await this.getToken() } catch (error) { return }: does
\* sendToken() return normally
CatchGetToken(failed) == TRUE

\* sendToken() after await getToken(): return if it failed, else send Auth
SendToken(i) ==
    /\ UNCHANGED <<docVars, relayVars>>
    /\ i \in 1 .. Len(openTasks)
    /\ openTasks[i] \in {"token", "authToken"}
    /\ openTasks' = [openTasks EXCEPT
                       ![i] = IF ~CatchGetToken(token = "failing") THEN "rejected"
                              ELSE IF openTasks[i] = "authToken" THEN "done"
                              ELSE "resume"]
    /\ IF token = "failing"
       THEN UNCHANGED <<wsSent, outgoingEvents>>
       ELSE DoSend(AuthenticationMessage([token |-> Text("secret"),
                                          documentName |-> DocumentName]))
    /\ openLog' = [openLog EXCEPT
                     ![i].auth = IF token # "failing" /\ wsSent' # wsSent
                                 THEN Len(wsSent') ELSE 0,
                     ![i].tokenAttached = isAttached]
    /\ lastCall' = [op |-> "sendToken", task |-> i, attached |-> isAttached,
                    sentBefore |-> wsSent, eventsBefore |-> outgoingEvents]
    /\ UNCHANGED <<inboundVars, destroyEvents, unsubCalls>>
    /\ UNCHANGED <<token, forceSyncInterval, isAttached, wsListeners, forceSync,
                   unsubDoc, unsubEphemeral, docSubscribed, ephSubscribed, localDoc>>

\* onOpen() after await sendToken(): startSync()
OnOpenResume(i) ==
    /\ UNCHANGED <<docVars, relayVars>>
    /\ i \in 1 .. Len(openTasks)
    /\ openTasks[i] = "resume"
    /\ openTasks' = [openTasks EXCEPT ![i] = "done"]
    /\ StartSync
    /\ openLog' = [openLog EXCEPT
                     ![i].sync = IF wsSent' # wsSent THEN Len(wsSent') ELSE 0,
                     ![i].resumeAttached = isAttached]
    /\ lastCall' = [op |-> "onOpenResume", task |-> i, attached |-> isAttached,
                    sentBefore |-> wsSent, eventsBefore |-> outgoingEvents]
    /\ UNCHANGED <<inboundVars, destroyEvents, unsubCalls>>
    /\ UNCHANGED <<token, forceSyncInterval, isAttached, wsListeners, forceSync,
                   unsubDoc, unsubEphemeral, docSubscribed, ephSubscribed, localDoc>>

\* the "open" event alone
OnOpen ==
    /\ OnOpenStart
    /\ lastCall' = [op |-> "onOpen", task |-> Len(openTasks) + 1]
    /\ UNCHANGED <<docVars, relayVars>>

\* registerWebsocketEvents(): the provider events a configured callback
\* listens to
ProviderListeners ==
    {"open", "message", "outgoingMessage", "status", "disconnect", "close", "destroy"}

\* the shared websocket emits event e: each handler attach() registered for
\* it runs, forwardConnect/Status/Close/Disconnect/Destroy emitting the same
\* provider event, boundOnOpen running onOpen(), which emits "open" first;
\* the provider's emit calls the listeners of registerWebsocketEvents
WebsocketEmits(e) ==
    LET emitted == wsListeners[e]
        runsOnOpen == e = "open" /\ wsListeners["open"] > 0
    IN /\ lastCall' = [op |-> "emit", event |-> e, attached |-> isAttached,
                       emitted |-> emitted,
                       callbacks |-> IF e \in ProviderListeners THEN emitted ELSE 0,
                       task |-> IF runsOnOpen THEN Len(openTasks) + 1 ELSE 0]
       /\ IF runsOnOpen
          THEN /\ OnOpenStart
               /\ openedAt' = Append(openedAt, Len(wsSent))
          ELSE /\ UNCHANGED <<token, forceSyncInterval, isAttached, wsListeners,
                              forceSync, unsubDoc, unsubEphemeral, docSubscribed,
                              ephSubscribed, localDoc, openTasks, wsSent,
                              outgoingEvents, openLog, destroyEvents, unsubCalls,
                              inboundVars>>
               /\ UNCHANGED openedAt
       /\ UNCHANGED <<docVars, peers, uplink, lost, authVars, codecVars, versionRead>>

\* LoroProvider.onMessage, case LoroSyncBatch: import each update of the
\* batch in order; an import that throws ends the handler
RECURSIVE ImportBatch(_, _)
ImportBatch(doc, updates) ==
    IF updates = <<>> THEN [doc |-> doc, completed |-> TRUE]
    ELSE LET r == Import(doc, Head(updates))
         IN IF r.threw THEN [doc |-> r.doc, completed |-> FALSE]
            ELSE ImportBatch(r.doc, Tail(updates))

\* the updates of a batch on which import is called: all of them, or those up
\* to the first whose import throws
RECURSIVE ImportCalls(_, _)
ImportCalls(doc, updates) ==
    IF updates = <<>> THEN <<>>
    ELSE LET r == Import(doc, Head(updates))
         IN <<Head(updates)>> \o (IF r.threw THEN <<>> ELSE ImportCalls(r.doc, Tail(updates)))

\* frames the websocket delivers, decoded: Auth with the three auth message
\* types, LoroUpdate, LoroSyncBatch, LoroEphemeral, and a type the provider
\* has no case for
AuthTypes == {"Token", "PermissionDenied", "Authenticated"}
InboundBatches ==
    {<<>>, <<Update({<<"p1", 0>>})>>, <<Update({<<"p1", 0>>}), Update({<<"p2", 0>>})>>,
     <<Update({<<"p1", 1>>}), Update({<<"p1", 0>>})>>, <<Malformed, Update({<<"p2", 0>>})>>}
InboundUpdates == {Update({<<"p1", 0>>}), Update({<<"p2", 0>>}), Malformed}
InboundFrames ==
    {[type |-> "Auth", auth |-> a] : a \in AuthTypes}
    \cup {[type |-> "LoroUpdate", update |-> u] : u \in InboundUpdates}
    \cup {[type |-> "LoroSyncBatch", count |-> Len(b), updates |-> b] : b \in InboundBatches}
    \cup {[type |-> "LoroEphemeral", update |-> EphemeralPayload]}
    \cup {[type |-> "Stateless"]}

\* the types onMessage has a case for
KnownTypes == {"Auth", "LoroUpdate", "LoroSyncBatch", "LoroEphemeral"}

\* switch (type) { ... default: break }: is a frame of this type refused
RefusesType(type) == FALSE

FrameImportsWithoutBatch(frame) ==
    IF frame.type = "LoroUpdate" THEN <<frame.update>> ELSE <<>>
\* case LoroUpdate / case LoroSyncBatch: the updates handed to doc.import
FrameImports(frame) ==
    CASE frame.type = "LoroUpdate" -> <<frame.update>>
      [] frame.type = "LoroSyncBatch" -> SubSeq(frame.updates, 1, frame.count)
      [] OTHER -> <<>>

FrameAppliesUpdates(frame) ==
    IF frame.type \in {"LoroEphemeral", "LoroUpdate"} THEN <<frame.update>> ELSE <<>>
\* case LoroEphemeral: the payloads handed to ephemeralStore.apply
FrameApplies(frame) ==
    IF frame.type = "LoroEphemeral" THEN <<frame.update>> ELSE <<>>

\* onMessage(event): emit "message", then dispatch on the type
OnMessage(frame) ==
    LET imports == FrameImports(frame)
        r == ImportBatch(localDoc, imports)
        applies == FrameApplies(frame)
        sendsToken == frame.type = "Auth" /\ frame.auth = "Token"
    IN /\ UNCHANGED <<docVars, relayVars>>
       /\ ~MicrotaskQueued
       /\ Len(inboundLog) < MaxInbound
       /\ localDoc' = r.doc
       /\ ephemeralStore' = ephemeralStore \o applies
       /\ openTasks' = IF sendsToken THEN Append(openTasks, "authToken") ELSE openTasks
       /\ openLog' = IF sendsToken
                      THEN Append(openLog, [auth |-> 0, sync |-> 0, tokenAttached |-> FALSE,
                                            resumeAttached |-> FALSE])
                      ELSE openLog
       /\ inboundLog' = Append(inboundLog,
                               [frame |-> frame,
                                imports |-> ImportCalls(localDoc, imports),
                                applies |-> applies,
                                threw |-> ~r.completed,
                                refused |-> RefusesType(frame.type)])
       /\ lastCall' = [op |-> "onMessage", frame |-> frame, attached |-> isAttached,
                       docBefore |-> localDoc, storeBefore |-> ephemeralStore,
                       sentBefore |-> wsSent, eventsBefore |-> outgoingEvents]
       /\ UNCHANGED <<token, forceSyncInterval, isAttached, wsListeners, forceSync,
                      unsubDoc, unsubEphemeral, docSubscribed, ephSubscribed, wsSent,
                      outgoingEvents, destroyEvents, unsubCalls>>

\* ------------------------------------------------------------------------
\* Relay: two clients, each a LoroProvider with its replica, and the
\* Document with a replica installed, joined by one socket per client.
\* ------------------------------------------------------------------------
\* the peer id of each client's replica and the one edit each client makes
PeerOf == [c \in Connections |-> IF c = "cA" THEN "p1" ELSE "p2"]
RelayOps == {<<"p1", 0>>, <<"p2", 0>>}

\* the names of the documents of the server
DocumentNames == {DocumentName, Text("doc2")}

\* no attachment was asked for
GateIdle ==
    /\ attachment = [c \in Connections |-> [d \in DocumentNames |-> "none"]]
    /\ served = 0
    /\ gateLog = <<>>

\* no websocket event yet; the replica is a LoroDoc, whose oplogVersion()
\* returns
EventsIdle ==
    /\ openedAt = <<>>
    /\ versionRead = "value"

AuthIdle == GateIdle /\ EventsIdle

\* no relay: no client exists
PeersIdle ==
    /\ peers = [c \in Connections |-> [isAttached |-> FALSE, forceSync |-> FALSE,
                                        doc |-> NoDoc, dropped |-> {}, cut |-> {},
                                               synced |-> FALSE]]
    /\ uplink = [c \in Connections |-> <<>>]
    /\ lost = [c \in Connections |-> {}]

RelayIdle == PeersIdle /\ AuthIdle

\* the clients after construction: detached, empty replicas, all built with
\* a forceSyncInterval or all without
RelayCreated ==
    /\ \E f \in BOOLEAN :
          peers = [c \in Connections |-> [isAttached |-> FALSE, forceSync |-> f,
                                          doc |-> NewDoc(FALSE), dropped |-> {},
                                          cut |-> {}, synced |-> FALSE]]
    /\ uplink = [c \in Connections |-> <<>>]
    /\ lost = [c \in Connections |-> {}]
    /\ AuthIdle

\* the server reads the version text of a LoroSyncRequest: none for the
\* empty string, else the vector written there
ParseVersion(text) ==
    IF text = EmptyString THEN NoVV
    ELSE [kind |-> "vv",
          vv |-> [q \in Peers |->
                    IF \E e \in text.entries : e[1] = q
                    THEN (CHOOSE e \in text.entries : e[1] = q)[2] ELSE 0]]

\* the LoroSyncBatch frame: count, then the updates
SyncBatchFrame(updates) ==
    [type |-> "LoroSyncBatch", count |-> Len(updates), updates |-> updates]

\* what onMessage reads from a frame the server wrote
Decode(frame) ==
    IF frame.type = "LoroUpdate" THEN [type |-> "LoroUpdate", update |-> frame.payload]
    ELSE frame

\* the operations of the LoroUpdate frames of a server queue / a client queue
DownlinkOps(queue) ==
    UNION {queue[i].payload.ops : i \in {j \in 1 .. Len(queue) : queue[j].type = "LoroUpdate"}}
UplinkOps(queue) ==
    UNION {queue[i][3].bytes.ops :
              i \in {j \in 1 .. Len(queue) : queue[j][2] = VarUint("LoroUpdate")}}

\* startSync() of client c
PeerSyncRequest(c) ==
    LoroSyncRequestMessage([documentName |-> DocumentName,
                            versionJSON |-> Stringify(OplogVersion(peers[c].doc))])

\* client c: attach(), the socket opens, the server registers the
\* connection, onOpen() runs to its startSync()
Connect(c) ==
    /\ ~peers[c].isAttached
    /\ peers' = [peers EXCEPT ![c].isAttached = TRUE]
    /\ connections' = [connections EXCEPT ![webSocket[c]] = c]
    /\ uplink' = [uplink EXCEPT ![c] = SendIfAttached(TRUE, <<>>, PeerSyncRequest(c))]
    /\ UNCHANGED <<authVars, codecVars, eventVars>>
    /\ UNCHANGED <<loroUpdates, loroDoc, outbound, onLoroUpdateCalls, statelessCalls,
                   importLog, callLog, calls, lastOp, lost, providerVars>>

\* client c: detach(), the socket closes with what it holds, the server
\* removes the connection
Disconnect(c) ==
    /\ peers[c].isAttached
    /\ peers' = [peers EXCEPT ![c].isAttached = FALSE,
                              ![c].synced = FALSE,
                              ![c].cut = @ \cup UplinkOps(uplink[c])
                                           \cup DownlinkOps(outbound[c])]
    /\ connections' = [connections EXCEPT ![webSocket[c]] = NoConnection]
    /\ uplink' = [uplink EXCEPT ![c] = <<>>]
    /\ outbound' = [outbound EXCEPT ![c] = <<>>]
    /\ lost' = [lost EXCEPT ![c] = {}]
    /\ UNCHANGED <<authVars, codecVars, eventVars>>
    /\ UNCHANGED <<loroUpdates, loroDoc, onLoroUpdateCalls, statelessCalls,
                   importLog, callLog, calls, lastOp, providerVars>>

\* client c commits its edit: the subscribeLocalUpdates callback sends it
Edit(c) ==
    LET op == <<PeerOf[c], OplogVersion(peers[c].doc)[PeerOf[c]]>>
        update == Update({op})
    IN /\ op \in RelayOps
       /\ Len(uplink[c]) < MaxInFlight
       /\ peers' = [peers EXCEPT
                      ![c].doc = Import(@, update).doc,
                      ![c].dropped = IF peers[c].isAttached THEN @ ELSE @ \cup {op}]
       /\ uplink' = [uplink EXCEPT
                       ![c] = SendIfAttached(peers[c].isAttached, @,
                                LoroUpdateMessage([documentName |-> DocumentName,
                                                   update |-> update]))]
       /\ UNCHANGED <<authVars, codecVars, eventVars>>
       /\ UNCHANGED <<docVars, providerVars, lost>>

\* the forceSync interval of client c fires: startSync()
PeerTick(c) ==
    /\ peers[c].forceSync
    /\ Len(uplink[c]) < MaxInFlight
    /\ uplink' = [uplink EXCEPT
                    ![c] = SendIfAttached(peers[c].isAttached, @, PeerSyncRequest(c))]
    /\ UNCHANGED <<authVars, codecVars, eventVars>>
    /\ UNCHANGED <<docVars, providerVars, peers, lost>>

\* the server reads a LoroUpdate frame of connection c:
\* handleLoroUpdate(update, c)
ServerReceiveUpdate(c) ==
    /\ uplink[c] # <<>>
    /\ Head(uplink[c])[2] = VarUint("LoroUpdate")
    /\ HandleLoroUpdateEffect(Head(uplink[c])[3].bytes, c)
    /\ uplink' = [uplink EXCEPT ![c] = Tail(@)]
    /\ UNCHANGED <<authVars, codecVars, eventVars>>
    /\ UNCHANGED <<onLoroUpdateCalls, importLog, callLog, calls, lastOp,
                   providerVars, peers, lost>>

\* the server reads a LoroSyncRequest frame of connection c: parse the
\* version, exportLoroUpdates, answer c with a LoroSyncBatch
ServerReceiveSyncRequest(c) ==
    /\ uplink[c] # <<>>
    /\ Head(uplink[c])[2] = VarUint("LoroSyncRequest")
    /\ Len(outbound[c]) < MaxInFlight
    /\ LET versionVector == ParseVersion(Head(uplink[c])[3].str)
           result == ExportLoroUpdatesResult(loroDoc, loroUpdates, versionVector,
                                             FALSE, FALSE)
       IN /\ outbound' = Send(outbound, {c}, SyncBatchFrame(result.updates))
    /\ uplink' = [uplink EXCEPT ![c] = Tail(@)]
    /\ UNCHANGED <<authVars, codecVars, eventVars>>
    /\ UNCHANGED <<lastOp, loroUpdates, loroDoc, connections, onLoroUpdateCalls, statelessCalls,
                   importLog, callLog, calls, providerVars, peers, lost>>

\* the socket of client c delivers the next frame: onMessage
Deliver(c) ==
    /\ outbound[c] # <<>>
    /\ peers' = [peers EXCEPT
                   ![c].doc = ImportBatch(@, FrameImports(Decode(Head(outbound[c])))).doc,
                   ![c].synced = @ \/ Head(outbound[c]).type = "LoroSyncBatch"]
    /\ outbound' = [outbound EXCEPT ![c] = Tail(@)]
    /\ UNCHANGED <<authVars, codecVars, eventVars>>
    /\ UNCHANGED <<loroUpdates, loroDoc, connections, onLoroUpdateCalls, statelessCalls,
                   importLog, callLog, calls, lastOp, providerVars, uplink, lost>>

\* the next frame to client c, a LoroUpdate broadcast, is lost
Lose(c) ==
    /\ outbound[c] # <<>>
    /\ Head(outbound[c]).type = "LoroUpdate"
    /\ outbound' = [outbound EXCEPT ![c] = Tail(@)]
    /\ lost' = [lost EXCEPT ![c] = @ \cup Head(outbound[c]).payload.ops]
    /\ UNCHANGED <<authVars, codecVars, eventVars>>
    /\ UNCHANGED <<loroUpdates, loroDoc, connections, onLoroUpdateCalls, statelessCalls,
                   importLog, callLog, calls, lastOp, providerVars, peers, uplink>>

\* ------------------------------------------------------------------------
\* Codec: the bytes of the outgoing Loro messages (lib0 encoding) and their
\* reading in envelope order
\* ------------------------------------------------------------------------
NoMessage == [kind |-> "none"]

\* nothing is being encoded
CodecIdle ==
    /\ message = NoMessage
    /\ encoded = <<>>
    /\ decoded = NoMessage

\* the code points of the strings that are encoded
JsonCodes(entries) ==
    IF entries = {} THEN <<123, 125>>
    ELSE <<123, 34, 112, 49, 34, 58, 49, 125>>
Codes(string) ==
    CASE string.text = "" -> <<>>
      [] string.text = "doc1" -> <<100, 111, 99, 49>>
      [] string.text = "caf\\u00e9" -> <<99, 97, 102, 233>>
      [] string.text = "json" -> JsonCodes(string.entries)

\* the inputs: document names, version strings, byte arrays, type tags
CodecNames == {DocumentName, Text("caf\\u00e9"), EmptyString}
CodecVersions ==
    {Undefined, EmptyString, Stringify(ZeroVV),
     Stringify([q \in Peers |-> IF q = "p1" THEN 1 ELSE 0])}
CodecStrings == CodecNames \cup (CodecVersions \ {Undefined})
CodecPayloads == {<<>>, <<0>>, <<1, 2>>, <<255>>, <<128, 1>>}
CodecTags == {8, 128, 300}
Messages ==
    {[kind |-> k, tag |-> t, documentName |-> n, update |-> u] :
        k \in {"LoroUpdate", "LoroEphemeral"}, t \in CodecTags, n \in CodecNames,
        u \in CodecPayloads}
    \cup {[kind |-> "LoroSyncRequest", tag |-> t, documentName |-> n, versionJSON |-> v] :
            t \in CodecTags, n \in CodecNames, v \in CodecVersions}

\* UTF-8 of a sequence of code points below 2048, and back
RECURSIVE Utf8(_)
Utf8(codes) ==
    IF codes = <<>> THEN <<>>
    ELSE (IF Head(codes) < 128 THEN <<Head(codes)>>
          ELSE <<192 + (Head(codes) \div 64), 128 + (Head(codes) % 64)>>)
         \o Utf8(Tail(codes))
RECURSIVE Utf8Decode(_)
Utf8Decode(bytes) ==
    IF bytes = <<>> THEN <<>>
    ELSE IF Head(bytes) < 128 \/ Len(bytes) = 1
    THEN <<Head(bytes)>> \o Utf8Decode(Tail(bytes))
    ELSE <<(Head(bytes) % 64) * 64 + (bytes[2] % 64)>>
         \o Utf8Decode(SubSeq(bytes, 3, Len(bytes)))

\* encoding.writeVarUint: seven bits per byte, low bits first, the high bit
\* set on every byte but the last
RECURSIVE WriteVarUint(_)
WriteVarUint(n) ==
    IF n < 128 THEN <<n>> ELSE <<128 + (n % 128)>> \o WriteVarUint(n \div 128)
\* encoding.writeVarUint8Array: the length, then the bytes
WriteVarUint8Array(bytes) == WriteVarUint(Len(bytes)) \o bytes
\* encoding.writeVarString: the UTF-8 bytes as a byte array
WriteVarString(string) == WriteVarUint8Array(Utf8(Codes(string)))

\* readVarUint, readVarUint8Array, readVarString: the value and the bytes
\* left; ok is FALSE when the bytes end too early
RECURSIVE ReadVarUint(_)
ReadVarUint(bytes) ==
    IF bytes = <<>> THEN [ok |-> FALSE, value |-> 0, rest |-> <<>>]
    ELSE IF Head(bytes) < 128 THEN [ok |-> TRUE, value |-> Head(bytes), rest |-> Tail(bytes)]
    ELSE LET r == ReadVarUint(Tail(bytes))
         IN [ok |-> r.ok, value |-> (Head(bytes) - 128) + 128 * r.value, rest |-> r.rest]
ReadVarUint8Array(bytes) ==
    LET n == ReadVarUint(bytes)
    IN IF n.ok /\ n.value <= Len(n.rest)
       THEN [ok |-> TRUE, value |-> SubSeq(n.rest, 1, n.value),
             rest |-> SubSeq(n.rest, n.value + 1, Len(n.rest))]
       ELSE [ok |-> FALSE, value |-> <<>>, rest |-> <<>>]
ReadVarString(bytes) ==
    LET a == ReadVarUint8Array(bytes)
        known == {x \in CodecStrings : Codes(x) = Utf8Decode(a.value)}
    IN [ok |-> a.ok /\ known # {},
        value |-> IF a.ok /\ known # {} THEN CHOOSE x \in known : TRUE ELSE Undefined,
        rest |-> a.rest]

\* the bytes of the fields a message class writes, in the order written
RECURSIVE FieldBytes(_, _)
FieldBytes(fields, tag) ==
    IF fields = <<>> THEN <<>>
    ELSE (CASE DOMAIN Head(fields) = {"str"} -> WriteVarString(Head(fields).str)
            [] DOMAIN Head(fields) = {"uint"} -> WriteVarUint(tag)
            [] DOMAIN Head(fields) = {"bytes"} -> WriteVarUint8Array(Head(fields).bytes))
         \o FieldBytes(Tail(fields), tag)

\* new Message().get(args) for the class of the message
MessageFields(msg) ==
    CASE msg.kind = "LoroUpdate" ->
            LoroUpdateMessage([documentName |-> msg.documentName, update |-> msg.update])
      [] msg.kind = "LoroEphemeral" ->
            LoroEphemeralMessage([documentName |-> msg.documentName, update |-> msg.update])
      [] msg.kind = "LoroSyncRequest" ->
            LoroSyncRequestMessage([documentName |-> msg.documentName,
                                    versionJSON |-> msg.versionJSON])

\* the payload field a message of this kind is to carry
PayloadOf(msg) ==
    IF msg.kind = "LoroSyncRequest"
    THEN (IF msg.versionJSON = Undefined THEN EmptyString ELSE msg.versionJSON)
    ELSE msg.update

\* reading a frame in envelope order: readVarString, readVarUint, then the
\* payload of the kind that has this tag
ReadFrame(bytes, kind) ==
    LET name == ReadVarString(bytes)
        type == ReadVarUint(name.rest)
        payload == IF kind = "LoroSyncRequest" THEN ReadVarString(type.rest)
                   ELSE ReadVarUint8Array(type.rest)
    IN [kind |-> kind, ok |-> name.ok /\ type.ok /\ payload.ok,
        documentName |-> name.value, type |-> type.value,
        payload |-> payload.value, rest |-> payload.rest]

\* get(args): the encoder's bytes
EncodeMessage ==
    /\ message # NoMessage
    /\ encoded = <<>>
    /\ encoded' = FieldBytes(MessageFields(message), message.tag)
    /\ UNCHANGED <<docVars, providerVars, peers, uplink, lost, authVars, eventVars,
                   message, decoded>>

\* the receiver reads the frame
DecodeFrame ==
    /\ encoded # <<>>
    /\ decoded = NoMessage
    /\ decoded' = ReadFrame(encoded, message.kind)
    /\ UNCHANGED <<docVars, providerVars, peers, uplink, lost, authVars, eventVars,
                   message, encoded>>

\* ------------------------------------------------------------------------
\* Authentication per document: the connection-level admission of the
\* server in front of the Document, and the provider of document doc1 on
\* connection cA
\* ------------------------------------------------------------------------
\* the Auth frame that carries the decision
AuthReply(name, decision) == [type |-> "Auth", name |-> name, auth |-> decision]

\* the first Auth or LoroSyncRequest of connection c for a name: the auth
\* check; allowed, the connection is attached to the document; denied, that
\* attachment is closed
AuthCheck(c, name, allow) ==
    /\ attachment[c][name] = "none"
    /\ attachment' = [attachment EXCEPT ![c][name] = IF allow THEN "open" ELSE "closed"]
    /\ outbound' = Send(outbound, {c},
                        AuthReply(name, IF allow THEN "Authenticated" ELSE "PermissionDenied"))
    /\ connections' = IF allow /\ name = DocumentName
                      THEN [connections EXCEPT ![webSocket[c]] = c]
                      ELSE connections
    /\ UNCHANGED <<loroUpdates, loroDoc, onLoroUpdateCalls, statelessCalls, importLog,
                   callLog, calls, lastOp, providerVars, peers, uplink, lost, codecVars, eventVars,
                   served,
                   gateLog>>

PassesAlways(state) == TRUE
\* a LoroUpdate frame reaches the Document only over an open attachment
Passes(state) == state = "open"

\* the server reads a LoroUpdate frame of connection c for a name
Gate(c, name, update) ==
    LET state == attachment[c][name]
    IN /\ Len(gateLog) < MaxGate
       /\ gateLog' = Append(gateLog,
                            [connection |-> c, name |-> name, update |-> update,
                             state |-> state, passed |-> Passes(state),
                             closed |-> {d \in DocumentNames : attachment[c][d] = "closed"}])
       /\ IF Passes(state) /\ name = DocumentName
          THEN HandleLoroUpdateEffect(update, c)
          ELSE UNCHANGED <<loroUpdates, loroDoc, outbound, connections, statelessCalls>>
       /\ UNCHANGED <<onLoroUpdateCalls, importLog, callLog, calls, lastOp, attachment,
                      providerVars, peers, uplink, lost, codecVars, eventVars>>

\* the server reads the next frame the provider sent on connection cA
ServeProvider ==
    /\ served < Len(wsSent)
    /\ wsSent[served + 1][2] = VarUint("LoroUpdate")
    /\ Gate("cA", wsSent[served + 1][1].str, wsSent[served + 1][3].bytes)
    /\ served' = served + 1

\* the server reads a LoroUpdate frame of another provider: on connection
\* cB, or on connection cA for another document
ServeOther(c, name, update) ==
    /\ <<c, name>> # <<"cA", DocumentName>>
    /\ Gate(c, name, update)
    /\ UNCHANGED served

\* the socket delivers the Auth reply for doc1 to the provider: onMessage
ReceiveAuthReply ==
    \E i \in 1 .. Len(outbound["cA"]) :
        LET reply == outbound["cA"][i]
            frame == [type |-> "Auth", auth |-> reply.auth]
        IN /\ reply.type = "Auth"
           /\ reply.name = DocumentName
           /\ \A j \in 1 .. Len(inboundLog) : inboundLog[j].frame # frame
           /\ OnMessage(frame)

InitDoc == DocCreated /\ ProviderIdle /\ RelayIdle /\ CodecIdle

NextDoc ==
    \/ \E c \in Connections : AddConnection(c)
    \/ \E c \in Connections : RemoveConnection(c)
    \/ \E d \in {NoDoc, NewDoc(FALSE)} : SetLoroDoc(d)
    \/ \E u \in DocUpdates, o \in Connections \cup {NoOrigin} : HandleLoroUpdate(u, o)
    \/ \E o \in Connections \cup {NoOrigin} : BroadcastLoroEphemeral(EphemeralPayload, o)
    \/ \E p \in StatelessPayloads, f \in StatelessFilters :
          BroadcastStateless(p, f)

SpecDoc == InitDoc /\ [][NextDoc]_vars

NextSync ==
    \/ \E d \in {NoDoc} \cup HydratedDocs : SetLoroDoc(d)
    \/ \E u \in Updates : HandleLoroUpdate(u, NoOrigin)
    \/ \E v \in VersionVectors, fromThrows \in BOOLEAN, fullThrows \in BOOLEAN :
          ExportLoroUpdates(v, fromThrows, fullThrows)

SpecSync == InitDoc /\ [][NextSync]_vars

InitProvider == DocCreated /\ ProviderCreated /\ RelayIdle /\ CodecIdle

NextProvider ==
    \/ Attach
    \/ Detach
    \/ \E docThrows \in BOOLEAN, ephThrows \in BOOLEAN : Destroy(docThrows, ephThrows)
    \/ LocalUpdate
    \/ LocalEphemeral
    \/ Tick
    \/ OnOpen
    \/ \E i \in 1 .. MaxOpens : SendToken(i)
    \/ \E i \in 1 .. MaxOpens : OnOpenResume(i)

SpecProvider == InitProvider /\ [][NextProvider]_vars

NextInbound ==
    \/ Attach
    \/ Detach
    \/ LocalUpdate
    \/ \E f \in InboundFrames : OnMessage(f)
    \/ \E i \in 1 .. MaxInbound : SendToken(i)

SpecInbound == InitProvider /\ [][NextInbound]_vars

\* the Document of a server that has loaded it: setLoroDoc(new LoroDoc())
\* on the constructed Document
DocLoaded ==
    /\ loroUpdates = <<>>
    /\ loroDoc = NewDoc(FALSE)
    /\ connections = [w \in WebSockets |-> NoConnection]
    /\ outbound = [c \in Connections |-> <<>>]
    /\ onLoroUpdateCalls = <<>>
    /\ statelessCalls = <<>>
    /\ importLog = <<>>
    /\ callLog = <<>>
    /\ calls = 0
    /\ lastOp = [op |-> "setLoroDoc", given |-> NewDoc(FALSE)]

InitRelay == DocLoaded /\ ProviderIdle /\ RelayCreated /\ CodecIdle

\* the providers: of doc1 and of doc2 on connection cA, of doc1 on
\* connection cB
Attachments ==
    {<<"cA", DocumentName>>, <<"cA", Text("doc2")>>, <<"cB", DocumentName>>}

\* the Document, the provider of doc1 built with a string token and no
\* force-sync interval, no attachment yet
InitAuth == DocCreated /\ ProviderIdle /\ RelayIdle /\ CodecIdle

NextAuth ==
    \/ Attach
    \/ LocalUpdate
    \/ ReceiveAuthReply
    \/ \E a \in Attachments, allow \in BOOLEAN : AuthCheck(a[1], a[2], allow)
    \/ ServeProvider
    \/ \E a \in Attachments : ServeOther(a[1], a[2], Update({<<"p2", 0>>}))

SpecAuth == InitAuth /\ [][NextAuth]_vars

\* a message to encode, of any class, with any arguments
InitCodec ==
    /\ DocCreated /\ ProviderIdle /\ RelayIdle
    /\ message \in Messages
    /\ encoded = <<>>
    /\ decoded = NoMessage

NextCodec ==
    \/ EncodeMessage
    \/ DecodeFrame

SpecCodec == InitCodec /\ [][NextCodec]_vars

\* a provider on a shared websocket that emits its lifecycle events
InitEvents == DocCreated /\ ProviderCreated /\ RelayIdle /\ CodecIdle

NextEvents ==
    \/ Attach
    \/ Detach
    \/ Tick
    \/ \E e \in Events : WebsocketEmits(e)
    \/ \E i \in 1 .. MaxOpens : SendToken(i)
    \/ \E i \in 1 .. MaxOpens : OnOpenResume(i)

SpecEvents == InitEvents /\ [][NextEvents]_vars

\* a provider whose replica may lack oplogVersion or throw from it
InitVersion ==
    /\ DocCreated
    /\ ProviderCreated
    /\ PeersIdle
    /\ GateIdle
    /\ CodecIdle
    /\ openedAt = <<>>
    /\ versionRead \in VersionReads

NextVersion ==
    \/ Attach
    \/ Detach
    \/ LocalUpdate
    \/ Tick
    \/ OnOpen
    \/ \E i \in 1 .. MaxOpens : SendToken(i)
    \/ \E i \in 1 .. MaxOpens : OnOpenResume(i)

SpecVersion == InitVersion /\ [][NextVersion]_vars

NextRelay ==
    \/ \E c \in Connections : Connect(c)
    \/ \E c \in Connections : Disconnect(c)
    \/ \E c \in Connections : Edit(c)
    \/ \E c \in Connections : PeerTick(c)
    \/ \E c \in Connections : ServerReceiveUpdate(c)
    \/ \E c \in Connections : ServerReceiveSyncRequest(c)
    \/ \E c \in Connections : Deliver(c)
    \/ \E c \in Connections : Lose(c)

\* the timers keep firing, the server keeps reading and the sockets keep
\* delivering
\* each of the four steps takes a frame off a queue or puts one on it, so it
\* changes the queues whenever it changes anything
RelayFairness ==
    \A c \in Connections :
        /\ WF_<<uplink, outbound>>(PeerTick(c))
        /\ WF_<<uplink, outbound>>(ServerReceiveUpdate(c))
        /\ WF_<<uplink, outbound>>(ServerReceiveSyncRequest(c))
        /\ WF_<<uplink, outbound>>(Deliver(c))

SpecRelay == InitRelay /\ [][NextRelay]_vars /\ RelayFairness

\* ------------------------------------------------------------------------
\* Properties of the Document
\* ------------------------------------------------------------------------
Range(seq) == {seq[i] : i \in 1 .. Len(seq)}

\* what the last broadcast put on connection c
Enqueued(c) == SubSeq(outbound[c], Len(lastOp.before[c]) + 1, Len(outbound[c]))

\* the last broadcast left what was queued on c before it in place
KeptQueue(c) ==
    /\ Len(outbound[c]) >= Len(lastOp.before[c])
    /\ SubSeq(outbound[c], 1, Len(lastOp.before[c])) = lastOp.before[c]

RECURSIVE IsSubsequence(_, _)
IsSubsequence(a, b) ==
    IF a = <<>> THEN TRUE
    ELSE IF b = <<>> THEN FALSE
    ELSE IF Head(a) = Head(b) THEN IsSubsequence(Tail(a), Tail(b))
    ELSE IsSubsequence(a, Tail(b))

\* the payloads of the LoroUpdate frames of a queue, in queue order
RECURSIVE LoroUpdatesOf(_)
LoroUpdatesOf(queue) ==
    IF queue = <<>> THEN <<>>
    ELSE (IF Head(queue).type = "LoroUpdate" THEN <<Head(queue).payload>> ELSE <<>>)
         \o LoroUpdatesOf(Tail(queue))

\* C1: origin elision. After handleLoroUpdate(update, o) with o registered,
\* every registered connection but o got exactly one LoroUpdate frame with
\* that update, that is |C| - 1 frames, and o and the others got none.
C1_OriginElision ==
    (lastOp.op = "handleLoroUpdate" /\ lastOp.origin \in lastOp.registered) =>
        /\ \A c \in Connections :
              /\ KeptQueue(c)
              /\ Enqueued(c) = IF c \in lastOp.registered \ {lastOp.origin}
                               THEN <<[type |-> "LoroUpdate", payload |-> lastOp.update]>>
                               ELSE <<>>
        /\ Cardinality({c \in Connections : Enqueued(c) # <<>>})
              = Cardinality(lastOp.registered) - 1

C1_Witness ==
    /\ lastOp.op = "handleLoroUpdate"
    /\ lastOp.origin = "cA"
    /\ lastOp.registered = {"cA", "cB"}
    /\ Len(outbound["cB"]) = 2
    /\ outbound["cB"][2].payload = lastOp.update
    /\ outbound["cA"] = <<>>

\* C2: ephemeral payloads are relayed, never stored. broadcastLoroEphemeral
\* puts one LoroEphemeral frame on every registered connection but the
\* origin and changes neither loroUpdates nor loroDoc; in no state does
\* loroUpdates, the replica or any sync export hold an ephemeral payload.
C2_EphemeralRelayed ==
    lastOp.op = "broadcastLoroEphemeral" =>
        \A c \in Connections :
            /\ KeptQueue(c)
            /\ Enqueued(c) =
                 IF c \in lastOp.registered /\ c # lastOp.origin
                 THEN <<[type |-> "LoroEphemeral", payload |-> lastOp.update]>>
                 ELSE <<>>

C2_NothingEphemeralStored ==
    /\ \A i \in 1 .. Len(loroUpdates) : loroUpdates[i].kind # "ephemeral"
    /\ \A v \in VersionVectors, fromThrows \in BOOLEAN, fullThrows \in BOOLEAN :
          \A u \in Range(ExportLoroUpdatesResult(loroDoc, loroUpdates, v,
                                                 fromThrows, fullThrows).updates) :
              u.kind # "ephemeral"

C2_EphemeralNotStored ==
    /\ [](C2_EphemeralRelayed /\ C2_NothingEphemeralStored)
    /\ [][lastOp'.op = "broadcastLoroEphemeral" =>
            (loroUpdates' = loroUpdates /\ loroDoc' = loroDoc /\ importLog' = importLog)]_vars

C2_Witness ==
    /\ lastOp.op = "broadcastLoroEphemeral"
    /\ lastOp.origin = "cA"
    /\ lastOp.registered = {"cA", "cB"}
    /\ Len(loroUpdates) = 1
    /\ loroDoc.present
    /\ Len(outbound["cB"]) = 2
    /\ outbound["cB"][2] = [type |-> "LoroEphemeral", payload |-> EphemeralPayload]

\* C5: FIFO per sender. For two calls of handleLoroUpdate by the same
\* connection, u1 first: every other connection registered at both calls has
\* u1 enqueued before u2, loroUpdates holds u1 before u2, and an installed
\* replica was offered u1 before u2.
C5_FifoPerSender ==
    \A i \in 1 .. Len(callLog) : \A j \in (i + 1) .. Len(callLog) :
        (callLog[i].origin = callLog[j].origin /\ callLog[i].origin \in Connections) =>
            /\ \A c \in (callLog[i].registered \cap callLog[j].registered)
                            \ {callLog[i].origin} :
                  \E a \in 1 .. Len(outbound[c]) : \E b \in (a + 1) .. Len(outbound[c]) :
                      /\ outbound[c][a].type = "LoroUpdate"
                      /\ outbound[c][a].payload = callLog[i].update
                      /\ outbound[c][b].type = "LoroUpdate"
                      /\ outbound[c][b].payload = callLog[j].update
            /\ Len(loroUpdates) >= j
            /\ loroUpdates[i] = callLog[i].update
            /\ loroUpdates[j] = callLog[j].update
            /\ loroDoc.present =>
                  \E a \in 1 .. Len(importLog) : \E b \in (a + 1) .. Len(importLog) :
                      /\ importLog[a].update = callLog[i].update
                      /\ importLog[b].update = callLog[j].update

C5_Witness ==
    /\ Len(callLog) = 2
    /\ callLog[1].origin = "cA" /\ callLog[2].origin = "cA"
    /\ callLog[1].update # callLog[2].update
    /\ "cB" \in callLog[1].registered \cap callLog[2].registered
    /\ loroDoc.present
    /\ Len(importLog) = 2
    /\ Len(outbound["cB"]) = 2

\* C6: one broadcast order. On every connection the LoroUpdate frames
\* enqueued so far are, in queue order, a subsequence of loroUpdates.
C6_SingleBroadcastOrder ==
    \A c \in Connections : IsSubsequence(LoroUpdatesOf(outbound[c]), loroUpdates)

C6_Witness ==
    /\ Len(callLog) = 2
    /\ callLog[1].origin = "cA" /\ callLog[2].origin = "cB"
    /\ callLog[1].update # callLog[2].update
    /\ LoroUpdatesOf(outbound["cB"]) = <<callLog[1].update>>
    /\ LoroUpdatesOf(outbound["cA"]) = <<callLog[2].update>>

\* C7: a failed import is not fatal. After a handleLoroUpdate whose import
\* threw, the update is the last stored one, every registered connection but
\* the origin got its frame, onLoroUpdate was invoked with it, and the same
\* connections are registered.
C7_FailedImportNotFatal ==
    (lastOp.op = "handleLoroUpdate" /\ lastOp.importThrew) =>
        /\ loroUpdates # <<>>
        /\ loroUpdates[Len(loroUpdates)] = lastOp.update
        /\ \A c \in lastOp.registered \ {lastOp.origin} :
              /\ KeptQueue(c)
              /\ Enqueued(c) = <<[type |-> "LoroUpdate", payload |-> lastOp.update]>>
        /\ Len(onLoroUpdateCalls) = Len(callLog)
        /\ onLoroUpdateCalls[Len(onLoroUpdateCalls)]
              = [origin |-> lastOp.origin, update |-> lastOp.update]
        /\ GetConnections(connections) = lastOp.registered

C7_Witness ==
    /\ lastOp.op = "handleLoroUpdate"
    /\ lastOp.importThrew
    /\ lastOp.origin = "cA"
    /\ lastOp.registered = {"cA", "cB"}
    /\ outbound["cB"] # <<>>

\* C8: no origin. After handleLoroUpdate(update) without an origin every
\* registered connection got exactly one frame with the update: |C| frames.
C8_NoOriginFansOutToAll ==
    (lastOp.op = "handleLoroUpdate" /\ lastOp.origin = NoOrigin) =>
        /\ \A c \in Connections :
              /\ KeptQueue(c)
              /\ Enqueued(c) = IF c \in lastOp.registered
                               THEN <<[type |-> "LoroUpdate", payload |-> lastOp.update]>>
                               ELSE <<>>
        /\ Cardinality({c \in Connections : Enqueued(c) # <<>>})
              = Cardinality(lastOp.registered)

C8_Witness ==
    /\ lastOp.op = "handleLoroUpdate"
    /\ lastOp.origin = NoOrigin
    /\ lastOp.registered = {"cA", "cB"}
    /\ outbound["cA"] = <<[type |-> "LoroUpdate", payload |-> lastOp.update]>>
    /\ outbound["cB"] = <<[type |-> "LoroUpdate", payload |-> lastOp.update]>>

\* ------------------------------------------------------------------------
\* Properties of the sync exchange
\* ------------------------------------------------------------------------
\* the replicas a client may hold
ClientDocs ==
    {[present |-> TRUE, oplog |-> s, pending |-> q, array |-> FALSE] :
        s \in {x \in SUBSET Ops : Applicable(x) = x},
        q \in {y \in SUBSET Ops : Applicable(y) = {}}}

\* the operations of all updates of a batch
RECURSIVE BatchOps(_)
BatchOps(updates) ==
    IF updates = <<>> THEN {} ELSE Head(updates).ops \cup BatchOps(Tail(updates))

\* C3: sync correctness. After exportLoroUpdates(VV_c), a client whose
\* version is VV_c and that has imported the whole batch has a version that
\* covers VV_c and the version of the server replica.
C3_SyncCorrectness ==
    (lastOp.op = "exportLoroUpdates" /\ lastOp.versionVector.kind = "vv") =>
        \A client \in ClientDocs :
            OplogVersion(client) = lastOp.versionVector.vv =>
                LET r == ImportBatch(client, lastOp.result.updates)
                IN r.completed =>
                      /\ Covers(OplogVersion(r.doc), lastOp.versionVector.vv)
                      /\ loroDoc.present =>
                            Covers(OplogVersion(r.doc), OplogVersion(loroDoc))

C3_Witness ==
    /\ lastOp.op = "exportLoroUpdates"
    /\ lastOp.versionVector = [kind |-> "vv", vv |-> [p1 |-> 1, p2 |-> 0]]
    /\ lastOp.result.path = "from"
    /\ loroDoc.oplog = {<<"p1", 0>>, <<"p1", 1>>}
    /\ loroDoc.pending = {}

\* what the server holds: the applied operations of the replica, or with no
\* replica the operations of the stored updates
ServerOps == IF loroDoc.present THEN loroDoc.oplog ELSE BatchOps(loroUpdates)

\* C4 as stated: when no export fails, a request with a version vector is
\* answered with exactly the operations the server holds and the vector
\* lacks, a request without one with everything the server holds.
C4_ReturnsOnlyMissing ==
    (lastOp.op = "exportLoroUpdates" /\ ~lastOp.fromThrows /\ ~lastOp.fullThrows) =>
        /\ lastOp.versionVector.kind = "vv" =>
              BatchOps(lastOp.result.updates)
                 = {o \in ServerOps : o[2] >= lastOp.versionVector.vv[o[1]]}
        /\ lastOp.versionVector.kind = "none" =>
              BatchOps(lastOp.result.updates) = ServerOps

\* C4, amended: with a replica installed whose export succeeds, a request
\* with a version vector is answered with exactly the operations the replica
\* holds and the vector lacks, a request without one with all the replica
\* holds, and a single exported blob comes as a one-element sequence; with
\* no replica installed the answer is the stored update sequence whatever
\* the vector.
C4_ReturnsOnlyMissingFromReplica ==
    lastOp.op = "exportLoroUpdates" =>
        /\ (loroDoc.present /\ lastOp.versionVector.kind = "vv" /\ ~lastOp.fromThrows) =>
              /\ BatchOps(lastOp.result.updates)
                    = {o \in loroDoc.oplog : o[2] >= lastOp.versionVector.vv[o[1]]}
              /\ ~loroDoc.array => Len(lastOp.result.updates) = 1
        /\ (loroDoc.present /\ lastOp.versionVector.kind = "none" /\ ~lastOp.fullThrows) =>
              /\ BatchOps(lastOp.result.updates) = loroDoc.oplog
              /\ ~loroDoc.array => Len(lastOp.result.updates) = 1
        /\ ~loroDoc.present => lastOp.result.updates = loroUpdates

C4_Witness ==
    /\ lastOp.op = "exportLoroUpdates"
    /\ lastOp.versionVector = [kind |-> "vv", vv |-> [p1 |-> 1, p2 |-> 0]]
    /\ ~lastOp.fromThrows
    /\ loroDoc.present /\ ~loroDoc.array
    /\ loroDoc.oplog = {<<"p1", 0>>, <<"p1", 1>>, <<"p2", 0>>}
    /\ lastOp.result.updates = <<Update({<<"p1", 1>>, <<"p2", 0>>})>>

\* ------------------------------------------------------------------------
\* Properties of the provider
\* ------------------------------------------------------------------------
\* the positions of the LoroUpdate frames handed to the websocket
UpdateFrames == {i \in 1 .. Len(wsSent) : wsSent[i][2] = VarUint("LoroUpdate")}

\* C9: while attached, a local update reported by the document subscription
\* adds exactly one frame to what the websocket was handed, a LoroUpdate frame
\* of this document carrying that update, with one outgoingMessage event; and
\* the LoroUpdate frames lie in the order the local updates were produced.
C9_LocalUpdateSentInOrder ==
    /\ (lastCall.op = "localUpdate" /\ lastCall.attached) =>
          /\ wsSent = Append(lastCall.sentBefore,
                             <<VarString(DocumentName), VarUint("LoroUpdate"),
                               VarUint8Array(lastCall.update)>>)
          /\ outgoingEvents = lastCall.eventsBefore + 1
    /\ \A i \in UpdateFrames : \A j \in UpdateFrames :
          i < j => \A a \in wsSent[i][3].bytes.ops : \A b \in wsSent[j][3].bytes.ops :
                      a[1] = b[1] /\ a[2] < b[2]

C9_Witness ==
    /\ lastCall.op = "localUpdate"
    /\ lastCall.attached
    /\ Len(lastCall.sentBefore) = 1
    /\ UpdateFrames = {1, 2}
    /\ wsSent[1][3].bytes = Update({<<LocalPeer, 0>>})
    /\ wsSent[2][3].bytes = Update({<<LocalPeer, 1>>})

\* C10: send() is a no-op while detached. No step taken with isAttached
\* false hands a frame to the websocket or emits an outgoingMessage event,
\* whether it is a local update, a local ephemeral update, a force-sync tick
\* or the continuation of an onOpen.
C10_DetachedSendIsNoOp ==
    [][~isAttached => (wsSent' = wsSent /\ outgoingEvents' = outgoingEvents)]_vars

\* the continuation of an onOpen, with a token producer that was pending
\* when detach() ran, has called startSync() and nothing was sent
C10_Witness ==
    /\ lastCall.op = "onOpenResume"
    /\ ~lastCall.attached
    /\ token = "producer"
    /\ ~isAttached
    /\ wsSent = <<>>
    /\ outgoingEvents = 0

\* the frames of the given type handed to the websocket
FramesOfType(type) == {i \in 1 .. Len(wsSent) : wsSent[i][2] = VarUint(type)}

\* the LoroSyncRequest frame of a provider whose replica is at version vv
SyncRequestFrame(vv) ==
    <<VarString(DocumentName), VarUint("LoroSyncRequest"), VarString(Stringify(vv))>>

\* C11: Auth before LoroSyncRequest. An onOpen call sends nothing while it
\* waits for the token; what it sends is an Auth frame and then a
\* LoroSyncRequest frame, the request never before the Auth frame; and a call
\* whose token arrived and that ran attached has sent one of each.
C11_AuthBeforeSyncRequest ==
    \A i \in 1 .. Len(openLog) :
        /\ openTasks[i] = "token" => (openLog[i].auth = 0 /\ openLog[i].sync = 0)
        /\ openTasks[i] # "done" => openLog[i].sync = 0
        /\ openLog[i].auth > 0 => openLog[i].auth \in FramesOfType("Auth")
        /\ openLog[i].sync > 0 => openLog[i].sync \in FramesOfType("LoroSyncRequest")
        /\ (openLog[i].auth > 0 /\ openLog[i].sync > 0) => openLog[i].auth < openLog[i].sync
        /\ (/\ openTasks[i] = "done"
            /\ token # "failing"
            /\ openLog[i].tokenAttached
            /\ openLog[i].resumeAttached) =>
              (0 < openLog[i].auth /\ openLog[i].auth < openLog[i].sync)

C11_Witness ==
    /\ token = "producer"
    /\ Len(openLog) = 1
    /\ openTasks[1] = "done"
    /\ openLog[1].auth = 1
    /\ openLog[1].sync = 2
    /\ wsSent[1][2] = VarUint("Auth")
    /\ wsSent[2][2] = VarUint("LoroSyncRequest")

\* C12: a failing token producer. With a producer that throws or rejects no
\* Auth frame is ever sent, no onOpen call ends rejected, and the
\* continuation of onOpen, when attached, sends the LoroSyncRequest.
C12_FailingTokenProceeds ==
    token = "failing" =>
        /\ FramesOfType("Auth") = {}
        /\ \A i \in 1 .. Len(openTasks) : openTasks[i] # "rejected"
        /\ (lastCall.op = "onOpenResume" /\ lastCall.attached) =>
              /\ wsSent = Append(lastCall.sentBefore, SyncRequestFrame(OplogVersion(localDoc)))
              /\ openLog[lastCall.task].sync = Len(wsSent)
              /\ openLog[lastCall.task].auth = 0

C12_Witness ==
    /\ token = "failing"
    /\ lastCall.op = "onOpenResume"
    /\ lastCall.attached
    /\ openTasks = <<"done">>
    /\ wsSent = <<SyncRequestFrame(OplogVersion(localDoc))>>

\* the positions in wsSent of the LoroSyncRequest frames sent by onOpen calls
OpenSyncRequests == {openLog[i].sync : i \in 1 .. Len(openLog)} \ {0}

\* C16: the force-sync timer. The timer ticks only in a provider built with
\* a forceSyncInterval; a tick while attached hands the websocket exactly one
\* more frame, a LoroSyncRequest with the replica's version, so k such ticks
\* give k requests. Built with forceSyncInterval false the provider has no
\* timer and every LoroSyncRequest it sent came from an onOpen call.
C16_ForceSyncTimer ==
    /\ lastCall.op = "tick" => forceSyncInterval
    /\ (lastCall.op = "tick" /\ lastCall.attached) =>
          /\ wsSent = Append(lastCall.sentBefore, SyncRequestFrame(OplogVersion(localDoc)))
          /\ outgoingEvents = lastCall.eventsBefore + 1
    /\ ~forceSyncInterval =>
          /\ ~forceSync
          /\ FramesOfType("LoroSyncRequest") = OpenSyncRequests

C16_Witness ==
    /\ forceSyncInterval
    /\ lastCall.op = "tick"
    /\ lastCall.attached
    /\ openLog = <<>>
    /\ wsSent = <<SyncRequestFrame(ZeroVV), SyncRequestFrame(ZeroVV)>>

\* C20 as stated: after destroy() the timer is cleared, both subscriptions
\* are gone and isAttached is false, and a further destroy() changes nothing
\* and has no observable effect, so emits no event.
C20_DestroyIdempotent ==
    lastCall.op = "destroy" =>
        /\ ~forceSync /\ ~docSubscribed /\ ~ephSubscribed /\ ~isAttached
        /\ lastCall.eventsBefore >= 1 =>
              /\ ~lastCall.forceSyncBefore
              /\ ~lastCall.docSubscribedBefore
              /\ ~lastCall.ephSubscribedBefore
              /\ destroyEvents = lastCall.eventsBefore

\* C20, amended: after destroy() the timer is cleared, both subscriptions
\* are gone, no unsubscribe function is kept, no websocket listener is
\* registered and isAttached is false; a further destroy() finds timer and
\* subscriptions already gone and leaves them so; and every destroy() call,
\* the first and the further ones, emits one "destroy" event.
C20_DestroyIdempotentButEmits ==
    lastCall.op = "destroy" =>
        /\ ~forceSync /\ ~docSubscribed /\ ~ephSubscribed /\ ~isAttached
        /\ ~unsubDoc /\ ~unsubEphemeral
        /\ \A e \in Events : wsListeners[e] = 0
        /\ lastCall.eventsBefore >= 1 =>
              /\ ~lastCall.forceSyncBefore
              /\ ~lastCall.docSubscribedBefore
              /\ ~lastCall.ephSubscribedBefore
        /\ destroyEvents = lastCall.eventsBefore + 1

C20_Witness ==
    /\ lastCall.op = "destroy"
    /\ lastCall.eventsBefore = 1
    /\ ~lastCall.attachedBefore
    /\ forceSyncInterval
    /\ destroyEvents = 2
    /\ ~forceSync /\ ~docSubscribed /\ ~ephSubscribed /\ ~isAttached

\* ------------------------------------------------------------------------
\* Properties of inbound dispatch
\* ------------------------------------------------------------------------
\* what the last onMessage call did
LastInbound == inboundLog[Len(inboundLog)]

\* C13: a LoroSyncBatch with count N. After onMessage of such a frame import
\* was called on exactly its N updates in frame order, nothing was applied to
\* the ephemeral store, and for N = 0 the replica is as before.
C13_BatchImportedInOrder ==
    (lastCall.op = "onMessage" /\ lastCall.frame.type = "LoroSyncBatch") =>
        /\ Len(LastInbound.imports) = lastCall.frame.count
        /\ LastInbound.imports = lastCall.frame.updates
        /\ LastInbound.applies = <<>>
        /\ ephemeralStore = lastCall.storeBefore
        /\ lastCall.frame.count = 0 => localDoc = lastCall.docBefore

\* C14: inbound dispatch keeps document and presence apart. A LoroUpdate
\* frame makes one import call with its update and applies nothing to the
\* ephemeral store; a LoroEphemeral frame makes one apply call with its
\* payload and leaves the replica as it was; neither sends a frame.
C14_DocumentAndPresenceApart ==
    lastCall.op = "onMessage" =>
        /\ lastCall.frame.type = "LoroUpdate" =>
              /\ LastInbound.imports = <<lastCall.frame.update>>
              /\ localDoc = Import(lastCall.docBefore, lastCall.frame.update).doc
              /\ LastInbound.applies = <<>>
              /\ ephemeralStore = lastCall.storeBefore
        /\ lastCall.frame.type = "LoroEphemeral" =>
              /\ LastInbound.applies = <<lastCall.frame.update>>
              /\ ephemeralStore = Append(lastCall.storeBefore, lastCall.frame.update)
              /\ LastInbound.imports = <<>>
              /\ localDoc = lastCall.docBefore
        /\ lastCall.frame.type \in {"LoroUpdate", "LoroEphemeral"} =>
              /\ wsSent = lastCall.sentBefore
              /\ outgoingEvents = lastCall.eventsBefore

C14_Witness ==
    /\ lastCall.op = "onMessage"
    /\ lastCall.attached
    /\ lastCall.frame.type = "LoroEphemeral"
    /\ Len(inboundLog) = 2
    /\ inboundLog[1].frame = [type |-> "LoroUpdate", update |-> Update({<<"p2", 0>>})]
    /\ localDoc.oplog = {<<"p2", 0>>}
    /\ ephemeralStore = <<EphemeralPayload>>

\* C15: unknown type tags. Every received frame of a type the provider has
\* no case for was refused.
C15_UnknownTagRefused ==
    \A i \in 1 .. Len(inboundLog) :
        inboundLog[i].frame.type \notin KnownTypes =>
            (inboundLog[i].refused \/ inboundLog[i].threw)

\* ---------------------------------------------------------------------
\* Properties of the relay
\* ---------------------------------------------------------------------

\* what client c holds
HeldBy(c) == peers[c].doc.oplog \cup peers[c].doc.pending

\* C17: force sync recovers from lost updates. With force sync enabled and
\* the provider attached, an update the server holds whose broadcast frame
\* to a client was lost is eventually held by that client, unless the
\* client detaches first.
C17_ForceSyncRecovers ==
    \A c \in Connections : \A op \in {o \in RelayOps : o[1] # PeerOf[c]} :
        (op \in lost[c] /\ op \in ServerOps /\ peers[c].forceSync /\ peers[c].isAttached)
            ~> (op \in HeldBy(c) \/ ~peers[c].isAttached)

\* a broadcast to cB was lost on this connection and cB holds its update
C17_Witness ==
    /\ peers["cB"].forceSync /\ peers["cB"].isAttached /\ peers["cB"].synced
    /\ <<"p1", 0>> \in lost["cB"]
    /\ <<"p1", 0>> \in ServerOps
    /\ <<"p1", 0>> \in HeldBy("cB")

\* C18: offline edits are synchronized after reconnecting. An update a
\* client made while detached, once the client is attached again and has
\* synced, eventually reaches the server, unless the client detaches first.
C18_OfflineEditsReachServer ==
    \A c \in Connections : \A op \in RelayOps :
        (op \in peers[c].dropped /\ peers[c].isAttached /\ peers[c].synced)
            ~> (op \in ServerOps \/ ~peers[c].isAttached)

\* every client is attached and has completed its initial sync
AllSynced == \A c \in Connections : peers[c].isAttached /\ peers[c].synced

\* no LoroUpdate frame was lost or cut off
AllDelivered == \A c \in Connections : lost[c] = {} /\ peers[c].cut = {}

\* the clients and the server hold the same updates
Converged == \A c \in Connections : peers[c].doc.oplog = ServerOps

\* C19: convergence. If every LoroUpdate frame is delivered and from some
\* point on every client stays attached with its initial sync completed,
\* then eventually all clients and the server hold the same updates for good.
C19_Convergence ==
    ([]AllDelivered /\ <>[]AllSynced) => <>[]Converged

\* C21: each unsubscribe function is called exactly once, during the first
\* destroy(): never before a destroy(), once each after it, however many
\* destroy() calls follow and whether or not the functions throw.
C21_UnsubscribedOnce ==
    /\ destroyEvents = 0 => unsubCalls.doc = 0 /\ unsubCalls.ephemeral = 0
    /\ destroyEvents > 0 => unsubCalls.doc = 1 /\ unsubCalls.ephemeral = 1

\* two destroy() calls in a row; in the first both unsubscribe functions
\* threw, the second called none
C21_Witness ==
    /\ destroyEvents = 2
    /\ lastCall.op = "destroy"
    /\ lastCall.threw = 2
    /\ ~lastCall.docSubscribedBefore
    /\ unsubCalls = [doc |-> 1, ephemeral |-> 1]

\* C22: attach/detach symmetry. Each of the six websocket handlers is
\* registered at most once, and is registered exactly when isAttached is
\* true; attach() on an attached provider leaves the registrations as they
\* were.
C22_AttachDetachSymmetry ==
    /\ Events = {"connect", "status", "open", "close", "disconnect", "destroy"}
    /\ \A e \in Events :
          /\ wsListeners[e] <= 1
          /\ wsListeners[e] = 1 <=> isAttached
    /\ (lastCall.op = "attach" /\ lastCall.attachedBefore) =>
          /\ isAttached
          /\ wsListeners = lastCall.listenersBefore

\* attach() was called on an attached provider
C22_Witness ==
    /\ lastCall.op = "attach"
    /\ lastCall.attachedBefore
    /\ \A e \in Events : wsListeners[e] = 1

\* ------------------------------------------------------------------------
\* Properties of the authentication per document
\* ------------------------------------------------------------------------
\* the updates the server let through to the Document of doc1, in order
RECURSIVE PassedUpdates(_)
PassedUpdates(log) ==
    IF log = <<>> THEN <<>>
    ELSE (IF Head(log).passed /\ Head(log).name = DocumentName
          THEN <<Head(log).update>> ELSE <<>>) \o PassedUpdates(Tail(log))

\* C23: a rejected authentication closes only that document's attachment.
\* A LoroUpdate read over a closed attachment never passes, the Document
\* holds only the updates that passed, a connection with a closed
\* attachment is not registered with that Document, and a frame over an
\* open attachment passes whatever else is closed on its connection.
C23_RejectedAuthClosesAttachment ==
    /\ \A i \in 1 .. Len(gateLog) :
          /\ gateLog[i].state = "closed" => ~gateLog[i].passed
          /\ gateLog[i].state = "open" => gateLog[i].passed
    /\ loroUpdates = PassedUpdates(gateLog)
    /\ \A c \in Connections :
          attachment[c][DocumentName] = "closed" => c \notin GetConnections(connections)

\* the provider was told PermissionDenied, stayed attached and sent an
\* update, which was dropped; a frame of its connection for doc2 passed
C23_Witness ==
    /\ attachment["cA"][DocumentName] = "closed"
    /\ \E j \in 1 .. Len(inboundLog) : inboundLog[j].frame.auth = "PermissionDenied"
    /\ isAttached
    /\ Len(gateLog) = 2
    /\ gateLog[1].connection = "cA" /\ gateLog[1].name = DocumentName
    /\ gateLog[1].state = "closed" /\ ~gateLog[1].passed
    /\ gateLog[2].connection = "cA" /\ gateLog[2].name = Text("doc2")
    /\ gateLog[2].closed = {DocumentName} /\ gateLog[2].passed
    /\ loroUpdates = <<>>

\* ------------------------------------------------------------------------
\* Properties of the frames the provider writes
\* ------------------------------------------------------------------------
\* the types of the frames handed to the websocket
SentTypes == {wsSent[i][2].uint : i \in 1 .. Len(wsSent)}

\* C24: name multiplexing. Every frame the provider hands to the shared
\* websocket is an Auth, LoroUpdate, LoroSyncRequest or LoroEphemeral frame
\* whose envelope starts with the provider's configured document name.
C24_FramesCarryOwnName ==
    \A i \in 1 .. Len(wsSent) :
        /\ wsSent[i][1] = VarString(DocumentName)
        /\ wsSent[i][2].uint \in {"Auth", "LoroUpdate", "LoroSyncRequest", "LoroEphemeral"}

\* the provider has sent a frame of each of the four types
C24_Witness ==
    SentTypes = {"Auth", "LoroUpdate", "LoroSyncRequest", "LoroEphemeral"}

\* C25: envelope layout and round trip. The bytes of an outgoing Loro
\* message are the document name, the type tag and one payload field, in
\* this order and nothing else; read in this order they give back the name,
\* the tag and the payload, with no byte left; a LoroSyncRequest carries the
\* version string, the empty string when none is given.
C25_EnvelopeRoundTrip ==
    /\ encoded # <<>> =>
          encoded = WriteVarString(message.documentName)
                    \o WriteVarUint(message.tag)
                    \o (IF message.kind = "LoroSyncRequest"
                        THEN WriteVarString(PayloadOf(message))
                        ELSE WriteVarUint8Array(PayloadOf(message)))
    /\ decoded # NoMessage =>
          /\ decoded.ok
          /\ decoded.documentName = message.documentName
          /\ decoded.type = message.tag
          /\ decoded.payload = PayloadOf(message)
          /\ decoded.rest = <<>>

\* a LoroSyncRequest without version, with a name outside ASCII and a tag
\* of two bytes, was encoded and read back
C25_Witness ==
    /\ message.kind = "LoroSyncRequest"
    /\ message.versionJSON = Undefined
    /\ message.documentName = Text("caf\\u00e9")
    /\ message.tag = 300
    /\ Len(encoded) = 9
    /\ decoded.kind = "LoroSyncRequest"
    /\ decoded.payload = EmptyString

\* the steps of the last broadcastStateless that are of this kind
StepsOf(kind) == {i \in DOMAIN lastOp.steps : lastOp.steps[i].step = kind}

\* C26: broadcastStateless(payload, predicate) calls beforeBroadcastStateless
\* once, before any send, and then sends the payload once to each registered
\* connection the predicate accepts, to every registered connection when
\* there is no predicate, and to no other; loroUpdates and loroDoc stay as
\* they were.
C26_StatelessToFiltered ==
    /\ [](lastOp.op = "broadcastStateless" =>
            /\ StepsOf("beforeBroadcastStateless") = {1}
            /\ lastOp.steps[1].payload = lastOp.payload
            /\ \A c \in Connections :
                  LET accepted == /\ c \in lastOp.registered
                                  /\ (lastOp.filter = NoFilter \/ c \in lastOp.filter)
                      sends == {i \in StepsOf("sendStateless") :
                                   lastOp.steps[i].connection = c}
                  IN /\ Cardinality(sends) = IF accepted THEN 1 ELSE 0
                     /\ \A i \in sends : lastOp.steps[i].payload = lastOp.payload
                     /\ outbound[c] = IF accepted
                                      THEN Append(lastOp.before[c],
                                                  [type |-> "Stateless",
                                                   payload |-> lastOp.payload])
                                      ELSE lastOp.before[c])
    /\ [][(lastOp'.op = "broadcastStateless" /\ calls' # calls) =>
            /\ UNCHANGED <<loroUpdates, loroDoc>>
            /\ statelessCalls' = Append(statelessCalls, lastOp'.payload)]_vars

\* a broadcast with a predicate that accepts cA only, both registered, with
\* an update stored and a replica installed
C26_Witness ==
    /\ lastOp.op = "broadcastStateless"
    /\ lastOp.filter = {"cA"}
    /\ lastOp.registered = {"cA", "cB"}
    /\ Len(lastOp.steps) = 2
    /\ outbound["cA"] = <<[type |-> "Stateless", payload |-> "ping"]>>
    /\ outbound["cB"] = <<>>
    /\ loroUpdates # <<>>
    /\ loroDoc.present

\* the updates offered to the installed replica, in the order of the import
\* calls, and those of them it took
Offered == [i \in DOMAIN importLog |-> importLog[i].update]
Taken(log) == LET ok(e) == e.ok IN SelectSeq(log, ok)

HandledSteps(kind) == {i \in DOMAIN lastOp.steps : lastOp.steps[i].step = kind}

\* C28: onLoroUpdate closes every handleLoroUpdate. The callback was invoked
\* once for each handled update, in call order, with the origin and the
\* update of the call; within a call it is the last step, after the push,
\* after the import into an installed replica and after the send on every
\* registered connection but the origin.
C28_CallbackOncePerUpdate ==
    /\ onLoroUpdateCalls
          = [i \in DOMAIN callLog |->
                [origin |-> callLog[i].origin, update |-> callLog[i].update]]
    /\ lastOp.op = "handleLoroUpdate" =>
          LET last == Len(lastOp.steps)
          IN /\ HandledSteps("onLoroUpdate") = {last}
             /\ lastOp.steps[last].connection = lastOp.origin
             /\ onLoroUpdateCalls[Len(onLoroUpdateCalls)]
                   = [origin |-> lastOp.origin, update |-> lastOp.update]
             /\ HandledSteps("push") = {1}
             /\ loroUpdates[Len(loroUpdates)] = lastOp.update
             /\ Cardinality(HandledSteps("import")) = IF loroDoc.present THEN 1 ELSE 0
             /\ \A i \in HandledSteps("import") : i < last
             /\ \A c \in lastOp.registered \ {lastOp.origin} :
                   /\ \E i \in HandledSteps("send") :
                         i < last /\ lastOp.steps[i].connection = c
                   /\ outbound[c] = Append(lastOp.before[c],
                                           [type |-> "LoroUpdate",
                                            payload |-> lastOp.update])

\* two updates were handled with a replica installed, the second from cA
\* with cA and cB registered: push, import, one send, then the callback
C28_Witness ==
    /\ lastOp.op = "handleLoroUpdate"
    /\ lastOp.origin = "cA"
    /\ lastOp.registered = {"cA", "cB"}
    /\ loroDoc.present
    /\ Len(onLoroUpdateCalls) = 2
    /\ Len(lastOp.steps) = 4
    /\ lastOp.steps[3] = [step |-> "send", connection |-> "cB"]
    /\ lastOp.steps[4] = [step |-> "onLoroUpdate", connection |-> "cA"]

\* the updates passed to handleLoroUpdate so far, in call order
Accepted == [i \in DOMAIN callLog |-> callLog[i].update]

\* C29: loroUpdates records what was accepted. In every state loroUpdates is
\* the sequence of the updates passed to handleLoroUpdate, in call order,
\* an update passed twice stored twice; no operation of the Document
\* shortens or reorders it: every step leaves the old sequence as a prefix.
C29_StoredIsAccepted ==
    /\ [](loroUpdates = Accepted)
    /\ [][/\ Len(loroUpdates') >= Len(loroUpdates)
          /\ SubSeq(loroUpdates', 1, Len(loroUpdates)) = loroUpdates
          /\ Len(loroUpdates') > Len(loroUpdates) =>
                (lastOp'.op = "handleLoroUpdate"
                 /\ loroUpdates' = Append(loroUpdates, lastOp'.update))]_vars

\* the same update was accepted twice and a replica installed afterwards
C29_Witness ==
    /\ Len(loroUpdates) = 2
    /\ loroUpdates[1] = loroUpdates[2]
    /\ loroUpdates[1] # Malformed
    /\ callLog[1].origin # callLog[2].origin
    /\ lastOp.op = "setLoroDoc"
    /\ loroDoc.present

\* the last exportLoroUpdates had a replica and a vector, and the export
\* from the vector threw
FromExportFailed ==
    /\ lastOp.op = "exportLoroUpdates"
    /\ loroDoc.present
    /\ lastOp.versionVector.kind # "none"
    /\ (lastOp.fromThrows \/ lastOp.versionVector.kind = "bad")

\* C30: exportLoroUpdates never raises. Every call returns a sequence; when
\* the export from the supplied vector throws, the answer is the replica's
\* full export, the answer to a request without vector; when the full export
\* throws as well, the answer is loroUpdates.
C30_ExportNeverRaises ==
    /\ lastOp.op = "exportLoroUpdates" =>
          lastOp.result.path \in {"from", "full", "stored"}
    /\ (FromExportFailed /\ ~lastOp.fullThrows) =>
          /\ lastOp.result.updates = Wrap(Export(loroDoc, ZeroVV))
          /\ BatchOps(lastOp.result.updates) = loroDoc.oplog
    /\ (FromExportFailed /\ lastOp.fullThrows) =>
          lastOp.result.updates = loroUpdates

\* a request with a vector the engine cannot read, to a replica that holds
\* operations, was answered with the full export
C30_Witness ==
    /\ FromExportFailed
    /\ lastOp.versionVector = BadVV
    /\ ~lastOp.fromThrows /\ ~lastOp.fullThrows
    /\ loroDoc.oplog # {}
    /\ loroUpdates # <<>>
    /\ lastOp.result.path = "full"
    /\ BatchOps(lastOp.result.updates) = loroDoc.oplog

\* the operations of the stored updates that are updates to the engine
StoredOps == UNION {loroUpdates[i].ops : i \in {j \in DOMAIN loroUpdates :
                                                  loroUpdates[j].kind = "update"}}

\* C31: hydrating a replica. setLoroDoc(doc) offers doc every stored update,
\* first to last; an import that throws does not keep the later ones from
\* being imported; afterwards doc holds what it held before and the
\* operations of every stored update it took; loroUpdates is unchanged.
C31_HydrateInOrder ==
    /\ []((lastOp.op = "setLoroDoc" /\ lastOp.given.present) =>
            /\ Offered = loroUpdates
            /\ \A i \in DOMAIN importLog :
                  importLog[i].ok <=> loroUpdates[i].kind = "update"
            /\ loroDoc.oplog \cup loroDoc.pending
                  = lastOp.given.oplog \cup lastOp.given.pending \cup StoredOps
            /\ loroDoc.oplog = Applicable(loroDoc.oplog \cup loroDoc.pending))
    /\ [][lastOp'.op = "setLoroDoc" => loroUpdates' = loroUpdates]_vars

\* a replica that held p1:0 was installed after a rejected update and then
\* an update with p2:0 had been stored: it holds both operations
C31_Witness ==
    /\ lastOp.op = "setLoroDoc"
    /\ lastOp.given.oplog = {<<"p1", 0>>}
    /\ loroUpdates = <<Malformed, Update({<<"p2", 0>>})>>
    /\ importLog = <<[update |-> Malformed, ok |-> FALSE],
                     [update |-> Update({<<"p2", 0>>}), ok |-> TRUE]>>
    /\ loroDoc.oplog = {<<"p1", 0>>, <<"p2", 0>>}

\* C32: a removed connection gets nothing. removeConnection(c) leaves c
\* unregistered, and no step enqueues a frame on a connection that is not
\* registered, be it removed or never added: handleLoroUpdate,
\* broadcastLoroEphemeral and broadcastStateless leave its queue as it was.
C32_RemovedGetsNothing ==
    /\ [](lastOp.op = "removeConnection" =>
            lastOp.connection \notin GetConnections(connections))
    /\ [][\A c \in Connections :
            c \notin GetConnections(connections) => outbound'[c] = outbound[c]]_vars

\* cA got a frame while registered, was removed, and the next update went
\* to cB only
C32_Witness ==
    /\ lastOp.op = "handleLoroUpdate"
    /\ lastOp.origin = NoOrigin
    /\ lastOp.registered = {"cB"}
    /\ Len(outbound["cA"]) = 1
    /\ Len(outbound["cB"]) = 2

\* the last operation was a broadcast
Broadcast == lastOp.op \in {"handleLoroUpdate", "broadcastLoroEphemeral", "broadcastStateless"}

\* C33: a connection is attached at most once. addConnection of a connection
\* that is registered leaves the registrations as they are; every broadcast
\* puts at most one frame on a connection, however often it was added; one
\* removeConnection leaves it unregistered.
C33_AttachedAtMostOnce ==
    /\ [](Broadcast => \A c \in Connections : KeptQueue(c) /\ Len(Enqueued(c)) <= 1)
    /\ [](Cardinality(GetConnections(connections))
            = Cardinality({w \in WebSockets : connections[w] # NoConnection}))
    /\ [][(lastOp'.op = "addConnection" /\ lastOp' # lastOp
           /\ lastOp'.connection \in GetConnections(connections))
             => connections' = connections]_vars
    /\ [][(lastOp'.op = "removeConnection" /\ lastOp' # lastOp)
             => GetConnections(connections')
                  = GetConnections(connections) \ {lastOp'.connection}]_vars

\* cA was added while it was registered, after a broadcast that gave it one
\* frame
C33_Witness ==
    /\ lastOp.op = "addConnection"
    /\ lastOp.connection = "cA"
    /\ "cA" \in lastOp.registered
    /\ GetConnections(connections) = {"cA"}
    /\ Len(outbound["cA"]) = 1

\* C34: while the provider is attached every connect, open, status, close,
\* disconnect and destroy event of the shared websocket is re-emitted once
\* as the same provider event and reaches the callback configured for it;
\* while it is detached none is re-emitted
C34_LifecycleReemitted ==
    lastCall.op = "emit" =>
        /\ lastCall.attached => (lastCall.emitted = 1 /\ lastCall.callbacks = 1)
        /\ ~lastCall.attached => lastCall.emitted = 0

\* C35: startSync sends exactly one LoroSyncRequest; it carries the JSON of
\* the replica's version when the replica reports one and the empty string
\* when the replica has no version operation or reading the version throws
C35_VersionOrEmpty ==
    (lastCall.op \in {"tick", "onOpenResume"} /\ lastCall.attached) =>
        /\ Len(wsSent) = Len(lastCall.sentBefore) + 1
        /\ SubSeq(wsSent, 1, Len(lastCall.sentBefore)) = lastCall.sentBefore
        /\ wsSent[Len(wsSent)] =
              <<VarString(DocumentName), VarUint("LoroSyncRequest"),
                VarString(IF versionRead = "value"
                          THEN Stringify(OplogVersion(localDoc))
                          ELSE EmptyString)>>

\* a sync request went out after an open although reading the version of a
\* replica that holds an operation throws
C35_Witness ==
    /\ lastCall.op = "onOpenResume"
    /\ lastCall.attached
    /\ versionRead = "throws"
    /\ localDoc.oplog # {}
    /\ Len(wsSent) = 2
    /\ wsSent[2][3] = VarString(EmptyString)

\* C36: with no replica installed (loroDoc is null) exportLoroUpdates returns
\* the complete stored update sequence, in the order the updates were
\* accepted, whatever version vector the request carries: also a vector that
\* covers everything stored is answered with the whole history
C36_NoReplicaWholeHistory ==
    (lastOp.op = "exportLoroUpdates" /\ ~loroDoc.present) =>
        /\ lastOp.result.path = "stored"
        /\ lastOp.result.updates = loroUpdates
        /\ lastOp.result.updates = Accepted

\* without a replica, a request whose vector covers every stored operation
\* was answered with a non-empty batch
C36_Witness ==
    /\ lastOp.op = "exportLoroUpdates"
    /\ ~loroDoc.present
    /\ lastOp.versionVector.kind = "vv"
    /\ StoredOps # {}
    /\ \A o \in StoredOps : o[2] < lastOp.versionVector.vv[o[1]]
    /\ Len(lastOp.result.updates) = 2

\* C37: after a socket open event the provider sends no LoroSyncRequest frame
\* before the Auth frame of that open, also when the force-sync timer fires
\* while the token producer is still pending
C37_NoSyncRequestBeforeAuth ==
    \A i \in 1 .. Len(openedAt) :
        openLog[i].auth > 0 =>
            \A k \in FramesOfType("LoroSyncRequest") :
                ~(openedAt[i] < k /\ k < openLog[i].auth)

\* C38: once destroy() has been called the provider never sends a frame
\* again, whatever follows: a local CRDT update, a local ephemeral update, a
\* timer tick, a socket open or a later attach()
C38_SilentAfterDestroy ==
    [][destroyEvents > 0 => wsSent' = wsSent]_vars

\* the LoroUpdate frame that carries the given update
UpdateFrame(update) ==
    <<VarString(DocumentName), VarUint("LoroUpdate"), VarUint8Array(update)>>

\* C39: a local CRDT update produced while the provider is detached is
\* dropped, not queued. The call sends nothing; attach() sends nothing; and
\* every LoroUpdate frame that is ever sent is sent by the local-update
\* callback of an attached provider and carries the update of that call, so
\* no frame carries an update produced while detached.
C39_DetachedUpdateDropped ==
    /\ []((lastCall.op = "localUpdate" /\ ~lastCall.attached)
             => (wsSent = lastCall.sentBefore
                 /\ \A k \in FramesOfType("LoroUpdate") :
                        wsSent[k] # UpdateFrame(lastCall.update)))
    /\ [][lastCall'.op = "attach" => wsSent' = wsSent]_vars
    /\ [][\A k \in (1 .. Len(wsSent')) \ (1 .. Len(wsSent)) :
             wsSent'[k][2] = VarUint("LoroUpdate")
                => /\ lastCall'.op = "localUpdate"
                   /\ lastCall'.attached
                   /\ wsSent' = Append(wsSent, UpdateFrame(lastCall'.update))]_vars

\* the first local update was produced while detached and the second after
\* an attach(): only the second was sent
C39_Witness ==
    /\ lastCall.op = "localUpdate"
    /\ lastCall.attached
    /\ lastCall.update = Update({<<LocalPeer, 1>>})
    /\ localDoc.oplog = {<<LocalPeer, 0>>, <<LocalPeer, 1>>}
    /\ wsSent = <<UpdateFrame(Update({<<LocalPeer, 1>>}))>>
====
